---- MODULE Spec2Model ----
(***************************************************************************)
(* Model of the extraction-to-storage pipeline of telegram-to-notion:      *)
(*   NotionClient            (the sink: addMessage, addMessages,           *)
(*                            ensureDatabaseSchema)                         *)
(*   TelegramToNotionService (the coordinator: withTimeout,                 *)
(*                            extractChatToNotion, ...)                     *)
(* Every await of the TypeScript code is a suspension point: an action of  *)
(* the model is the continuation that runs when the awaited response       *)
(* arrives, up to the next await.                                          *)
(***************************************************************************)
EXTENDS Integers, Sequences, FiniteSets, TLC

(***************************************************************************)
(* Bounds of the model.                                                    *)
(***************************************************************************)
\* longest message list handed to addMessages
MaxMsgs == 3
\* size of one sub-batch; the source uses 10 (addMessages, "const batchSize
\* = 10"), the model scales it down so that several sub-batches fit MaxMsgs
batchSize == 2
\* number of chats of one multi-chat run; addMessages call c is the one made
\* for the c-th chat (a direct NotionClient call is call 1)
MaxChats == 2
\* number of consecutive direct ensureDatabaseSchema calls
MaxEnsureCalls == 2
\* number of non-validation failures (network, rate limit) the remote injects
MaxFaults == 1
\* number of edits made to the collection schema by somebody else
MaxEdits == 1

CallIds == 1..MaxChats
\* the longest record list a chat of the model gives (Source)
MaxRecords == MaxMsgs + 2
TaskIds == CallIds \X (1..MaxRecords) \X {1, 2}

(***************************************************************************)
(* The collection schema: a function from property name to property type.  *)
(***************************************************************************)
RequiredNonTitle ==
  [n \in {"Content", "Sender", "Chat", "Date", "Direction", "Message ID",
          "Media Type", "Chat ID"} |->
     CASE n \in {"Content", "Sender", "Chat", "Media Type", "Chat ID"} -> "rich_text"
       [] n = "Date" -> "date"
       [] n = "Direction" -> "select"
       [] n = "Message ID" -> "number"]

TitleKeys(existingProperties) ==
  {k \in DOMAIN existingProperties : existingProperties[k] = "title"}

\* Object.keys(existingProperties).find(key => type === 'title'), with
\* "undefined" when there is none
findTitleProperty(existingProperties) ==
  IF TitleKeys(existingProperties) = {} THEN "undefined"
  ELSE CHOOSE k \in TitleKeys(existingProperties) : TRUE

\* variant: the title property "Message" is required whatever the collection has
getRequiredProperties_alwaysTitle(existingProperties) ==
  [n \in DOMAIN RequiredNonTitle \cup {"Message"} |->
     IF n = "Message" THEN "title" ELSE RequiredNonTitle[n]]

getRequiredProperties(existingProperties) ==
  IF findTitleProperty(existingProperties) = "undefined"
  THEN [n \in DOMAIN RequiredNonTitle \cup {"Message"} |->
          IF n = "Message" THEN "title" ELSE RequiredNonTitle[n]]
  ELSE RequiredNonTitle

\* variant: the title is always written under "Message"
getTitlePropertyName_default(existingProperties) == "Message"

getTitlePropertyName(existingProperties) ==
  IF findTitleProperty(existingProperties) # "undefined"
  THEN findTitleProperty(existingProperties) ELSE "Message"

\* names of the properties createMessageProperties puts on the page
createMessageProperties(message, existingProperties) ==
  {getTitlePropertyName(existingProperties), "Content", "Sender", "Chat",
   "Date", "Direction", "Message ID"}
    \cup (IF message.mediaType # "" THEN {"Media Type"} ELSE {})
    \cup (IF message.chatId # "" THEN {"Chat ID"} ELSE {})

\* variant: the properties that not every entry carries are not looked for
missingProperties_ignoresOptional(existingProperties) ==
  {n \in DOMAIN getRequiredProperties(existingProperties) \ {"Media Type", "Chat ID"} :
     n \notin DOMAIN existingProperties}

\* the check loop of ensureDatabaseSchema: required names absent from the
\* collection
missingProperties(existingProperties) ==
  {n \in DOMAIN getRequiredProperties(existingProperties) :
     n \notin DOMAIN existingProperties}

\* the select options getRequiredProperties gives a property: the two of
\* Direction, none for the others
selectOptions(n) == IF n = "Direction" THEN {"Incoming", "Outgoing"} ELSE {}

\* the properties argument of databases.update in ensureDatabaseSchema
updatePayload(missing) ==
  [n \in missing |->
     [type |-> IF n = "Message" THEN "title" ELSE RequiredNonTitle[n],
      options |-> selectOptions(n)]]
\* databases.update of the remote: the named properties are added
databasesUpdate(schema, missing) ==
  [n \in DOMAIN schema \cup missing |->
     IF n \in missing
     THEN (IF n = "Message" THEN "title" ELSE RequiredNonTitle[n])
     ELSE schema[n]]

\* pages.create of the remote rejects a page naming a property the
\* collection does not have ("... is not a property that exists")
createAccepted(props, schema) == props \subseteq DOMAIN schema

Restrict(f, S) == [n \in S |-> f[n]]

FullSchema(title) ==
  [n \in DOMAIN RequiredNonTitle \cup {title} |->
     IF n = title THEN "title" ELSE RequiredNonTitle[n]]

\* collections a run can start from: provisioned by createMessagesDatabase,
\* provisioned by hand with another title name, lacking optional or all
\* non-title properties
InitSchemas ==
  { FullSchema("Message"),
    FullSchema("Name"),
    Restrict(FullSchema("Name"), DOMAIN FullSchema("Name") \ {"Media Type"}),
    Restrict(FullSchema("Name"), {"Name"}) }

\* properties somebody else may delete from the collection meanwhile
RemovableProps == {"Media Type", "Content"}

\* NotionMessage, reduced to what decides the properties of its page
MsgShapes == [mediaType : {"", "MessageMediaPhoto"}, chatId : {"100"}]

RECURSIVE SeqsUpTo(_, _)
SeqsUpTo(S, n) ==
  IF n = 0 THEN {<<>>}
  ELSE LET shorter == SeqsUpTo(S, n - 1)
       IN shorter \cup {Append(s, x) : s \in {q \in shorter : Len(q) = n - 1}, x \in S}

Min(a, b) == IF a < b THEN a ELSE b

(***************************************************************************)
(* The chat source and the pure functions of TelegramToNotionService.      *)
(***************************************************************************)
\* number of deadline breaches of one run
MaxTimeouts == 1

NoSender == [present |-> FALSE, firstName |-> "", lastName |-> "",
             username |-> "", title |-> ""]

\* MessageInfo: message "" stands for an absent text, media "" for no
\* attachment, topicId 0 and fromId "" for absent ones
MessageInfo(id, message, date, isOutgoing, media, topicId) ==
  [id |-> id, message |-> message, date |-> date, isOutgoing |-> isOutgoing,
   media |-> media, topicId |-> topicId, threadId |-> 0,
   fromId |-> "42", sender |-> [NoSender EXCEPT !.present = TRUE, !.firstName = "Ann"]]

\* the dialogs the source lists, in its native order
Dialogs ==
  << [id |-> "100", title |-> "Team", isUser |-> TRUE, isGroup |-> FALSE,
      isChannel |-> FALSE],
     [id |-> "200", title |-> "News", isUser |-> FALSE, isGroup |-> FALSE,
      isChannel |-> TRUE] >>

ChatIdUniverse == {"100", "200"}

\* the history of each chat, newest first
Source(chatId) ==
  CASE chatId = "100" ->
         << MessageInfo(3, "bye", 102, TRUE, "", 0),
            MessageInfo(2, "", 101, FALSE, "MessageMediaPhoto", 0) >>
    [] chatId = "200" ->
         << MessageInfo(12, "c", 10, FALSE, "", 7),
            MessageInfo(11, "", 8, FALSE, "MessageMediaPhoto", 9),
            MessageInfo(10, "", 5, FALSE, "MessageMediaPhoto", 7) >>
    [] chatId = "300" ->
         << MessageInfo(3, "bye", 102, TRUE, "", 0),
            MessageInfo(2, "", 101, FALSE, "MessageMediaPhoto", 0),
            MessageInfo(1, "hi", 100, FALSE, "", 0) >>
    [] chatId = "400" ->
         << MessageInfo(43, "c", 10, FALSE, "", 7),
            MessageInfo(42, "b", 8, FALSE, "", 9),
            MessageInfo(41, "a", 5, FALSE, "", 7) >>
    [] chatId = "500" ->
         << MessageInfo(55, "e", 505, TRUE, "", 0),
            MessageInfo(54, "d", 504, FALSE, "MessageMediaPhoto", 0),
            MessageInfo(53, "c", 503, TRUE, "", 0),
            MessageInfo(52, "b", 502, FALSE, "", 0),
            MessageInfo(51, "a", 501, TRUE, "", 0) >>
    [] OTHER ->
         << MessageInfo(65, "e", 301, FALSE, "", 0),
            MessageInfo(64, "d", 300, FALSE, "", 0),
            MessageInfo(63, " ", 250, FALSE, "", 0),
            MessageInfo(62, "b", 200, FALSE, "", 0),
            MessageInfo(61, "a", 199, FALSE, "", 0) >>

\* TelegramClient.getMessages: the newest `limit` messages, of one topic
\* when topicId is given (topicId 0: no topic option)
getMessages(chatId, limit, topicId) ==
  LET hist == IF topicId = 0 THEN Source(chatId)
              ELSE SelectSeq(Source(chatId), LAMBDA m : m.topicId = topicId)
  IN  SubSeq(hist, 1, Min(limit, Len(hist)))

NoDateFilter == [present |-> FALSE, hasFrom |-> FALSE, from |-> 0,
                 hasTo |-> FALSE, to |-> 0]
NoTopicFilter == [present |-> FALSE, topicId |-> 0, topicIds |-> <<>>,
                  includeGeneralTopic |-> FALSE]
NoChatFilter == [present |-> FALSE, includeUsers |-> FALSE,
                 includeGroups |-> FALSE, includeChannels |-> FALSE]

\* the defaults of extractChatToNotion: messageLimit = 50, includeOutgoing =
\* true, includeMedia = true
DefaultOptions ==
  [messageLimit |-> 50, includeOutgoing |-> TRUE, includeMedia |-> TRUE,
   dateFilter |-> NoDateFilter, topicFilter |-> NoTopicFilter,
   chatFilter |-> NoChatFilter]

\* String.prototype.trim on the texts of the model
Trim(str) == IF str = " " THEN "" ELSE str

\* variant: the direction is not looked at
passesDirection_any(message, filters) == TRUE

\* "Filter by outgoing status"
passesDirection(message, filters) ==
  ~(~filters.includeOutgoing /\ message.isOutgoing)

\* "Filter by media presence"
passesMedia(message, filters) ==
  ~(~filters.includeMedia /\ message.media # "")

\* variant: the bounds themselves are outside the range
passesDate_exclusive(message, dateFilter) ==
  dateFilter.present =>
    /\ ~(dateFilter.hasFrom /\ message.date * 1000 <= dateFilter.from)
    /\ ~(dateFilter.hasTo /\ message.date * 1000 >= dateFilter.to)

\* "Filter by date range": message.date is in seconds, the bounds of the
\* filter are instants in milliseconds
passesDate(message, dateFilter) ==
  dateFilter.present =>
    /\ ~(dateFilter.hasFrom /\ message.date * 1000 < dateFilter.from)
    /\ ~(dateFilter.hasTo /\ message.date * 1000 > dateFilter.to)

\* variant: a message without text passes
hasContent_any(message) == TRUE

\* "Only include messages with actual content"
hasContent(message) ==
  message.message # "" /\ Trim(message.message) # ""

filterMessages(messages, filters) ==
  SelectSeq(messages, LAMBDA message :
    /\ passesDirection(message, filters)
    /\ passesMedia(message, filters)
    /\ passesDate(message, filters.dateFilter)
    /\ hasContent(message))

\* variant: the filter does not look at includeGroups
filterDialogs_groupsPass(dialogs, chatFilter) ==
  IF ~chatFilter.present THEN dialogs
  ELSE SelectSeq(dialogs, LAMBDA dialog :
         /\ ~(dialog.isUser /\ ~chatFilter.includeUsers)
         /\ ~(dialog.isChannel /\ ~chatFilter.includeChannels))

\* filterDialogs: without a chatFilter every dialog passes; with one, a
\* dialog is dropped when a flag it carries has no true include* option
filterDialogs(dialogs, chatFilter) ==
  IF ~chatFilter.present THEN dialogs
  ELSE SelectSeq(dialogs, LAMBDA dialog :
         /\ ~(dialog.isUser /\ ~chatFilter.includeUsers)
         /\ ~(dialog.isGroup /\ ~chatFilter.includeGroups)
         /\ ~(dialog.isChannel /\ ~chatFilter.includeChannels))

\* variant: the username is looked at before the names
getSenderName_handleFirst(message) ==
  IF message.isOutgoing THEN "You"
  ELSE IF message.sender.present /\ message.sender.username # ""
  THEN "@" \o message.sender.username
  ELSE IF message.sender.present
          /\ (message.sender.firstName # "" \/ message.sender.lastName # "")
  THEN (IF message.sender.firstName = "" THEN message.sender.lastName
        ELSE IF message.sender.lastName = "" THEN message.sender.firstName
        ELSE message.sender.firstName \o " " \o message.sender.lastName)
  ELSE IF message.sender.present /\ message.sender.title # ""
  THEN message.sender.title
  ELSE "User " \o (IF message.fromId # "" THEN message.fromId ELSE "Unknown")

\* "Extract sender name from message": the template of the two names is
\* trimmed, which for names without outer blanks leaves the names that are
\* there, joined by one blank
getSenderName(message) ==
  IF message.isOutgoing THEN "You"
  ELSE IF message.sender.present
          /\ (message.sender.firstName # "" \/ message.sender.lastName # "")
  THEN (IF message.sender.firstName = "" THEN message.sender.lastName
        ELSE IF message.sender.lastName = "" THEN message.sender.firstName
        ELSE message.sender.firstName \o " " \o message.sender.lastName)
  ELSE IF message.sender.present /\ message.sender.username # ""
  THEN "@" \o message.sender.username
  ELSE IF message.sender.present /\ message.sender.title # ""
  THEN message.sender.title
  ELSE "User " \o (IF message.fromId # "" THEN message.fromId ELSE "Unknown")

convertToNotionMessages(messages, chatName, chatId) ==
  [j \in 1..Len(messages) |->
     [id |-> messages[j].id,
      content |-> IF messages[j].message # "" THEN messages[j].message
                  ELSE "[No content]",
      sender |-> getSenderName(messages[j]),
      date |-> messages[j].date * 1000,
      chatName |-> chatName,
      chatId |-> chatId,
      isOutgoing |-> messages[j].isOutgoing,
      mediaType |-> messages[j].media,
      topicId |-> messages[j].topicId,
      topicTitle |-> IF messages[j].topicId # 0
                     THEN "Topic " \o ToString(messages[j].topicId) ELSE "",
      threadId |-> messages[j].threadId]]

\* variant: the merged messages stay in the order they were fetched in
SortByDateDesc_unsorted(messages) == messages

\* Array.prototype.sort((a, b) => b.date - a.date): stable, date descending
RECURSIVE SortByDateDesc(_)
SortByDateDesc(messages) ==
  IF Len(messages) <= 1 THEN messages
  ELSE LET sorted == SortByDateDesc(SubSeq(messages, 1, Len(messages) - 1))
           m == messages[Len(messages)]
           before == SelectSeq(sorted, LAMBDA x : x.date >= m.date)
           after == SelectSeq(sorted, LAMBDA x : x.date < m.date)
       IN  before \o <<m>> \o after

\* dialogs.find(d => d.id.toString() === chatId.toString())?.title
\*   || `Chat ${chatId}`
chatNameOf(dialogs, chatId) ==
  IF \E j \in 1..Len(dialogs) : dialogs[j].id = chatId /\ dialogs[j].title # ""
  THEN dialogs[CHOOSE j \in 1..Len(dialogs) :
                 /\ dialogs[j].id = chatId
                 /\ \A i \in 1..j - 1 : dialogs[i].id # chatId].title
  ELSE "Chat " \o chatId

\* variant: the error does not name the operation
TimeoutError_unnamed(operationName, timeoutMs) ==
  [kind |-> "timeout", op |-> "", ms |-> timeoutMs]

\* the error withTimeout rejects with:
\* Error(`Operation '${operationName}' timed out after ${timeoutMs}ms`)
TimeoutError(operationName, timeoutMs) ==
  [kind |-> "timeout", op |-> operationName, ms |-> timeoutMs]

NoErr == [kind |-> "none", op |-> "", ms |-> 0]
\* an error of the chat transport, and an error thrown by NotionClient
TransportError == [kind |-> "transport", op |-> "", ms |-> 0]
SinkError(code) == [kind |-> "sink", op |-> code, ms |-> 0]

NoPending == [target |-> "none", frame |-> "none", chat |-> 0, name |-> "", ms |-> 0]
NoSingle == [pc |-> "none", pos |-> 0, chatId |-> "", chatName |-> "",
             mode |-> "plain", topics |-> <<>>, telegramMessages |-> <<>>, notionMessages |-> <<>>]
NoMulti == [pc |-> "none", chatIds |-> <<>>, i |-> 0, results |-> <<>>, err |-> NoErr]
NoAll == [pc |-> "none", results |-> <<>>, err |-> NoErr]
NoTop == [name |-> "none", pc |-> "none", err |-> NoErr]
NewRun(chatId) == [chatId |-> chatId, outcome |-> "running", err |-> NoErr,
                   result |-> <<>>, calls |-> <<>>]

(***************************************************************************)
(* State.                                                                  *)
(***************************************************************************)
VARIABLES
  dbSchema,   \* the remote collection's properties
  pages,      \* the entries created in the remote collection, each named
              \* by the addMessage invocation that created it
  tasks,      \* the addMessage invocations, by <<call, message index, attempt>>
  calls,      \* the top-level NotionClient calls
  ensLog,     \* the completed direct ensureDatabaseSchema calls
  faults,     \* non-validation failures injected so far
  edits,      \* foreign schema edits so far
  tgConnected, \* TelegramClient.isConnected()
  tgDialogs,  \* the dialogs of the account, as TelegramClient.getDialogs lists them
  opts,       \* the ExtractionOptions of the run
  top,        \* the public operation of TelegramToNotionService that runs
  single,     \* the running extractChatToNotion
  multi,      \* the running extractMultipleChatsToNotion
  allf,       \* the running extractAllChatsToNotion
  runs,       \* the extractChatToNotion invocations so far, with outcome
  pending,    \* the collaborator call the coordinator awaits
  orphans,    \* collaborator calls still in flight after their deadline
  timeouts,   \* deadline breaches so far
  tgClient,   \* TelegramClient: this.client and this.session
  remote,     \* what the remote services hold and answer
  clientCall, \* the TelegramClient or NotionClient call under study
  apiLog,     \* the requests that call has sent to the remote service
  applied     \* the function applied on its own, its argument and result

sinkVars == <<dbSchema, pages, tasks, calls, ensLog, faults, edits>>
clientVars == <<tgClient, remote, clientCall, apiLog>>
svcVars == <<clientVars, applied, tgConnected, tgDialogs, opts, top, single, multi, allf, runs, pending,
             orphans, timeouts>>
vars == <<dbSchema, pages, tasks, calls, ensLog, faults, edits,
          tgConnected, tgDialogs, opts, top, single, multi, allf, runs,
          pending, orphans, timeouts, tgClient, remote, clientCall, apiLog,
          applied>>

\* no client call under study: the clients are as constructed and stay so
NoClient == [config |-> "none", session |-> FALSE]
NoRemote == [entries |-> <<>>, forum |-> FALSE, forumTopics |-> <<>>,
             history |-> <<>>]
NoClientCall == [name |-> "none", pc |-> "none", result |-> <<>>, err |-> NoErr,
                 seq |-> 0, i |-> 0, topicsMap |-> <<>>,
                 batch |-> 0, countAttempts |-> 0, warnings |-> 0,
                 topicId |-> 0]

\* no function applied on its own
NoApplication == [fn |-> "none", pc |-> "none", arg |-> <<>>, ret |-> <<>>]

ClientsAtRest ==
  /\ tgClient = NoClient
  /\ remote = NoRemote
  /\ clientCall = NoClientCall
  /\ apiLog = <<>>

NoTask == [pc |-> "none", props |-> {}, missing |-> {}, err |-> "none",
           page |-> <<>>, creates |-> 0, ensures |-> 0, updates |-> 0]

NoCall == [kind |-> "none", pc |-> "none", msgs |-> <<>>, i |-> 1,
           schemaUpdated |-> FALSE, pageIds |-> <<>>, err |-> "none",
           missing |-> {}, ensures |-> 0, updates |-> 0, readEdits |-> 0]

\* message indices of the sub-batch messages.slice(i, i + batchSize)
BatchRange(cl) == cl.i .. Min(cl.i + batchSize - 1, Len(cl.msgs))

\* batch.map(message => this.addMessage(message)): every addMessage runs up
\* to its first await, the databases.retrieve of createMessageProperties
SpawnBatch(T, c, cl, attempt) ==
  [t \in TaskIds |->
     IF t[1] = c /\ t[2] \in BatchRange(cl) /\ t[3] = attempt
     THEN [NoTask EXCEPT !.pc = "props"]
     ELSE T[t]]

Init ==
  /\ applied = NoApplication
  /\ dbSchema \in InitSchemas
  /\ pages = {}
  /\ tasks = [t \in TaskIds |-> NoTask]
  /\ calls = [c \in CallIds |-> NoCall]
  /\ ensLog = <<>>
  /\ faults = 0
  /\ edits = 0
  /\ tgConnected = FALSE
  /\ tgDialogs = Dialogs
  /\ opts = DefaultOptions
  /\ top = NoTop
  /\ single = NoSingle
  /\ multi = NoMulti
  /\ allf = NoAll
  /\ runs = <<>>
  /\ pending = NoPending
  /\ orphans = {}
  /\ timeouts = 0
  /\ ClientsAtRest

\* the client of NotionClient makes its calls one after another
ClientIdle == \A c \in CallIds : calls[c].kind = "none"

\* variant: a sub-batch that failed is skipped and the loop goes on
addMessages_onSettle_skipFailed(c, t, T) ==
  LET cl == calls[c]
      nt == T[t]
      awaited == /\ cl.kind = "batch"
                 /\ \/ cl.pc = "await1" /\ t[3] = 1
                    \/ cl.pc = "await2" /\ t[3] = 2
                 /\ t[2] \in BatchRange(cl)
  IN  IF cl.kind = "one"
      THEN (IF nt.pc = "done"
            THEN [cl EXCEPT !.pc = "done", !.pageIds = <<nt.page>>]
            ELSE IF nt.pc = "failed"
            THEN [cl EXCEPT !.pc = "failed", !.err = nt.err]
            ELSE cl)
      ELSE IF ~awaited THEN cl
      ELSE IF nt.pc = "failed"
      THEN (IF cl.pc = "await1" /\ ~cl.schemaUpdated /\ nt.err = "missing"
            THEN [cl EXCEPT !.pc = "ens_retrieve", !.ensures = @ + 1]
            ELSE [cl EXCEPT !.pc = IF cl.i + batchSize <= Len(cl.msgs)
                                   THEN "delay" ELSE "done"])
      ELSE IF \A k \in BatchRange(cl) : T[<<c, k, t[3]>>].pc = "done"
      THEN [cl EXCEPT
              !.pageIds = @ \o [j \in 1..Cardinality(BatchRange(cl)) |->
                                  T[<<c, cl.i + j - 1, t[3]>>].page],
              !.pc = IF cl.i + batchSize <= Len(cl.msgs) THEN "delay" ELSE "done"]
      ELSE cl

(***************************************************************************)
(* NotionClient.addMessages: the reaction of the batch call to one of its  *)
(* addMessage promises settling (Promise.all rejects at the first          *)
(* rejection and resolves when all have resolved; the continuation runs    *)
(* before any other response is handled).                                  *)
(***************************************************************************)
addMessages_onSettle(c, t, T) ==
  LET cl == calls[c]
      nt == T[t]
      awaited == /\ cl.kind = "batch"
                 /\ \/ cl.pc = "await1" /\ t[3] = 1
                    \/ cl.pc = "await2" /\ t[3] = 2
                 /\ t[2] \in BatchRange(cl)
  IN  IF cl.kind = "one"
      THEN (IF nt.pc = "done"
            THEN [cl EXCEPT !.pc = "done", !.pageIds = <<nt.page>>]
            ELSE IF nt.pc = "failed"
            THEN [cl EXCEPT !.pc = "failed", !.err = nt.err]
            ELSE cl)
      ELSE IF ~awaited THEN cl
      ELSE IF nt.pc = "failed"
      THEN (IF cl.pc = "await1" /\ ~cl.schemaUpdated /\ nt.err = "missing"
            THEN [cl EXCEPT !.pc = "ens_retrieve", !.ensures = @ + 1]
            ELSE [cl EXCEPT !.pc = "failed", !.err = nt.err])
      ELSE IF \A k \in BatchRange(cl) : T[<<c, k, t[3]>>].pc = "done"
      THEN [cl EXCEPT
              !.pageIds = @ \o [j \in 1..Cardinality(BatchRange(cl)) |->
                                  T[<<c, cl.i + j - 1, t[3]>>].page],
              !.pc = IF cl.i + batchSize <= Len(cl.msgs) THEN "delay" ELSE "done"]
      ELSE cl

\* one addMessage invocation moves to the record nt
TaskStep(t, nt) ==
  LET T == [tasks EXCEPT ![t] = nt]
  IN  /\ tasks' = T
      /\ calls' = [calls EXCEPT ![t[1]] = addMessages_onSettle(t[1], t, T)]

(***************************************************************************)
(* NotionClient.addMessage, one action per await.                          *)
(***************************************************************************)
\* createMessageProperties got the collection; pages.create is issued
addMessage_propsOk(t) ==
  LET tk == tasks[t]
      msg == calls[t[1]].msgs[t[2]]
  IN  /\ tk.pc \in {"props", "props2"}
      /\ TaskStep(t, [tk EXCEPT
             !.pc = IF tk.pc = "props" THEN "create" ELSE "create2",
             !.props = createMessageProperties(msg, dbSchema),
             !.creates = @ + 1])
      /\ UNCHANGED <<dbSchema, pages, ensLog, faults, edits>>
      /\ UNCHANGED svcVars

\* variant: the entry is created and the invocation fails all the same
addMessage_createOk_thenFails(t) ==
  LET tk == tasks[t]
  IN  /\ tk.pc \in {"create", "create2"}
      /\ createAccepted(tk.props, dbSchema)
      /\ pages' = pages \cup {t}
      /\ TaskStep(t, [tk EXCEPT !.pc = "failed", !.err = "other"])
      /\ UNCHANGED <<dbSchema, ensLog, faults, edits>>
      /\ UNCHANGED svcVars

\* variant: a message that has an entry gets no second one
addMessage_createOk_upserts(t) ==
  LET tk == tasks[t]
      existing == {p \in pages :
                     /\ calls[p[1]].msgs[p[2]].id = calls[t[1]].msgs[t[2]].id
                     /\ calls[p[1]].msgs[p[2]].chatId = calls[t[1]].msgs[t[2]].chatId}
  IN  /\ tk.pc \in {"create", "create2"}
      /\ createAccepted(tk.props, dbSchema)
      /\ pages' = IF existing = {} THEN pages \cup {t} ELSE pages
      /\ TaskStep(t, [tk EXCEPT !.pc = "done",
                                !.page = IF existing = {} THEN t
                                         ELSE CHOOSE p \in existing : TRUE])
      /\ UNCHANGED <<dbSchema, ensLog, faults, edits>>
      /\ UNCHANGED svcVars
\* pages.create succeeded: the entry exists, addMessage returns its id
addMessage_createOk(t) ==
  LET tk == tasks[t]
  IN  /\ tk.pc \in {"create", "create2"}
      /\ createAccepted(tk.props, dbSchema)
      /\ pages' = pages \cup {t}
      /\ TaskStep(t, [tk EXCEPT !.pc = "done", !.page = t])
      /\ UNCHANGED <<dbSchema, ensLog, faults, edits>>
      /\ UNCHANGED svcVars

\* variant: the retried create starts a reconciliation as well
addMessage_createMissing_again(t) ==
  LET tk == tasks[t]
  IN  /\ tk.pc \in {"create", "create2"}
      /\ ~createAccepted(tk.props, dbSchema)
      /\ TaskStep(t, [tk EXCEPT !.pc = "ens_retrieve", !.ensures = @ + 1])
      /\ UNCHANGED <<dbSchema, pages, ensLog, faults, edits>>
      /\ UNCHANGED svcVars

\* pages.create failed with the missing-property validation error: the
\* first create starts ensureDatabaseSchema, the retried create rethrows
addMessage_createMissing(t) ==
  LET tk == tasks[t]
  IN  /\ tk.pc \in {"create", "create2"}
      /\ ~createAccepted(tk.props, dbSchema)
      /\ TaskStep(t, IF tk.pc = "create"
                     THEN [tk EXCEPT !.pc = "ens_retrieve", !.ensures = @ + 1]
                     ELSE [tk EXCEPT !.pc = "failed", !.err = "missing"])
      /\ UNCHANGED <<dbSchema, pages, ensLog, faults, edits>>
      /\ UNCHANGED svcVars

\* ensureDatabaseSchema inside addMessage got the collection
addMessage_ensRetrieveOk(t) ==
  LET tk == tasks[t]
      missing == missingProperties(dbSchema)
  IN  /\ tk.pc = "ens_retrieve"
      /\ TaskStep(t, IF missing = {}
                     THEN [tk EXCEPT !.pc = "props2"]
                     ELSE [tk EXCEPT !.pc = "ens_update", !.missing = missing,
                                     !.updates = @ + 1])
      /\ UNCHANGED <<dbSchema, pages, ensLog, faults, edits>>
      /\ UNCHANGED svcVars

\* databases.update of ensureDatabaseSchema inside addMessage succeeded
addMessage_ensUpdateOk(t) ==
  LET tk == tasks[t]
  IN  /\ tk.pc = "ens_update"
      /\ dbSchema' = databasesUpdate(dbSchema, tk.missing)
      /\ TaskStep(t, [tk EXCEPT !.pc = "props2", !.missing = {}])
      /\ UNCHANGED <<pages, ensLog, faults, edits>>
      /\ UNCHANGED svcVars

\* variant: any failure of the first create starts a reconciliation
addMessage_fault_reconciles(t) ==
  LET tk == tasks[t]
  IN  /\ tk.pc \in {"props", "create", "ens_retrieve", "ens_update", "props2", "create2"}
      /\ faults < MaxFaults
      /\ faults' = faults + 1
      /\ TaskStep(t, IF tk.pc = "create"
                     THEN [tk EXCEPT !.pc = "ens_retrieve", !.ensures = @ + 1]
                     ELSE [tk EXCEPT !.pc = "failed", !.err = "other", !.missing = {}])
      /\ UNCHANGED <<dbSchema, pages, ensLog, edits>>
      /\ UNCHANGED svcVars

\* any awaited request of addMessage fails with a non-validation error,
\* which addMessage rethrows
addMessage_fault(t) ==
  LET tk == tasks[t]
  IN  /\ tk.pc \in {"props", "create", "ens_retrieve", "ens_update", "props2", "create2"}
      /\ faults < MaxFaults
      /\ faults' = faults + 1
      /\ TaskStep(t, [tk EXCEPT !.pc = "failed", !.err = "other", !.missing = {}])
      /\ UNCHANGED <<dbSchema, pages, ensLog, edits>>
      /\ UNCHANGED svcVars

(***************************************************************************)
(* Top-level calls of the client of NotionClient.                          *)
(***************************************************************************)
addMessage_call(message) ==
  LET c == 1
      cl == [NoCall EXCEPT !.kind = "one", !.pc = "await1", !.msgs = <<message>>]
  IN  /\ ClientIdle
      /\ calls' = [calls EXCEPT ![c] = cl]
      /\ tasks' = SpawnBatch(tasks, c, cl, 1)
      /\ UNCHANGED <<dbSchema, pages, ensLog, faults, edits>>
      /\ UNCHANGED svcVars

addMessages_call(messages) ==
  LET c == 1
      cl == [NoCall EXCEPT !.kind = "batch", !.msgs = messages,
                           !.pc = IF messages = <<>> THEN "done" ELSE "await1"]
  IN  /\ ClientIdle
      /\ calls' = [calls EXCEPT ![c] = cl]
      /\ tasks' = SpawnBatch(tasks, c, cl, 1)
      /\ UNCHANGED <<dbSchema, pages, ensLog, faults, edits>>
      /\ UNCHANGED svcVars

ensureDatabaseSchema_call ==
  /\ ClientIdle
  /\ Len(ensLog) < MaxEnsureCalls
  /\ calls' = [calls EXCEPT ![1] = [NoCall EXCEPT !.kind = "ensure",
                                      !.pc = "ens_retrieve", !.ensures = 1]]
  /\ UNCHANGED <<dbSchema, pages, tasks, ensLog, faults, edits>>
  /\ UNCHANGED svcVars

\* the 200 ms pause is over: the next sub-batch starts
addMessages_afterDelay(c) ==
  LET cl == [calls[c] EXCEPT !.i = @ + batchSize, !.pc = "await1"]
  IN  /\ calls[c].pc = "delay"
      /\ calls' = [calls EXCEPT ![c] = cl]
      /\ tasks' = SpawnBatch(tasks, c, cl, 1)
      /\ UNCHANGED <<dbSchema, pages, ensLog, faults, edits>>
      /\ UNCHANGED svcVars

\* what follows a completed ensureDatabaseSchema: the direct call returns;
\* addMessages sets schemaUpdated and retries the current sub-batch
afterEnsure(c, cl) ==
  IF cl.kind = "ensure"
  THEN /\ ensLog' = Append(ensLog, [ok |-> TRUE, updates |-> cl.updates,
                                    readEdits |-> cl.readEdits])
       /\ calls' = [calls EXCEPT ![c] = NoCall]
       /\ UNCHANGED tasks
  ELSE LET cl2 == [cl EXCEPT !.schemaUpdated = TRUE, !.pc = "await2"]
       IN  /\ calls' = [calls EXCEPT ![c] = cl2]
           /\ tasks' = SpawnBatch(tasks, c, cl2, 2)
           /\ UNCHANGED ensLog

\* variant: the update names every required property, present or not
ensureDatabaseSchema_retrieveOk_sendsAll(c) ==
  LET cl == calls[c]
      missing == DOMAIN getRequiredProperties(dbSchema)
  IN  /\ cl.pc = "ens_retrieve"
      /\ IF missingProperties(dbSchema) = {}
         THEN afterEnsure(c, [cl EXCEPT !.readEdits = edits])
         ELSE /\ calls' = [calls EXCEPT ![c] = [cl EXCEPT !.pc = "ens_update",
                             !.missing = missing, !.updates = @ + 1,
                             !.readEdits = edits]]
              /\ UNCHANGED <<tasks, ensLog>>
      /\ UNCHANGED <<dbSchema, pages, faults, edits>>
      /\ UNCHANGED svcVars
\* ensureDatabaseSchema got the collection: nothing missing, it returns;
\* otherwise it issues one databases.update with the missing properties
ensureDatabaseSchema_retrieveOk(c) ==
  LET cl == calls[c]
      missing == missingProperties(dbSchema)
  IN  /\ cl.pc = "ens_retrieve"
      /\ IF missing = {}
         THEN afterEnsure(c, [cl EXCEPT !.readEdits = edits])
         ELSE /\ calls' = [calls EXCEPT ![c] = [cl EXCEPT !.pc = "ens_update",
                             !.missing = missing, !.updates = @ + 1,
                             !.readEdits = edits]]
              /\ UNCHANGED <<tasks, ensLog>>
      /\ UNCHANGED <<dbSchema, pages, faults, edits>>
      /\ UNCHANGED svcVars

\* databases.update of ensureDatabaseSchema succeeded
ensureDatabaseSchema_updateOk(c) ==
  LET cl == calls[c]
  IN  /\ cl.pc = "ens_update"
      /\ dbSchema' = databasesUpdate(dbSchema, cl.missing)
      /\ afterEnsure(c, [cl EXCEPT !.missing = {}])
      /\ UNCHANGED <<pages, faults, edits>>
      /\ UNCHANGED svcVars

\* a request of ensureDatabaseSchema fails: the error is rethrown, and
\* addMessages rethrows it too
ensureDatabaseSchema_fault(c) ==
  LET cl == calls[c]
  IN  /\ cl.pc \in {"ens_retrieve", "ens_update"}
      /\ faults < MaxFaults
      /\ faults' = faults + 1
      /\ IF cl.kind = "ensure"
         THEN /\ ensLog' = Append(ensLog, [ok |-> FALSE, updates |-> cl.updates,
                                           readEdits |-> cl.readEdits])
              /\ calls' = [calls EXCEPT ![c] = NoCall]
         ELSE /\ calls' = [calls EXCEPT ![c] = [cl EXCEPT !.pc = "failed",
                                                  !.err = "other", !.missing = {}]]
              /\ UNCHANGED ensLog
      /\ UNCHANGED <<dbSchema, pages, tasks, edits>>
      /\ UNCHANGED svcVars

\* somebody else deletes a property of the collection
ForeignEdit(p) ==
  /\ edits < MaxEdits
  /\ p \in DOMAIN dbSchema
  /\ dbSchema[p] # "title"
  /\ dbSchema' = Restrict(dbSchema, DOMAIN dbSchema \ {p})
  /\ edits' = edits + 1
  /\ UNCHANGED <<pages, tasks, calls, ensLog, faults>>
  /\ UNCHANGED svcVars

(***************************************************************************)
(* TelegramToNotionService.  The continuations of the coordinator are      *)
(* written as functions of the record s of the variables they may change;  *)
(* an action commits the record its continuation yields.                   *)
(***************************************************************************)
TelegramOps == {"getAvailableChats", "getTopics", "isForumGroup"}
NotionOps == {"queryMessages", "getDatabaseStats", "createMessagesDatabase"}

Cur == [conn |-> tgConnected, single |-> single, multi |-> multi,
        allf |-> allf, runs |-> runs, pending |-> pending, calls |-> calls,
        tasks |-> tasks, top |-> top]

Commit(s) ==
  /\ tgConnected' = s.conn
  /\ single' = s.single
  /\ multi' = s.multi
  /\ allf' = s.allf
  /\ runs' = s.runs
  /\ pending' = s.pending
  /\ calls' = s.calls
  /\ tasks' = s.tasks
  /\ top' = s.top

\* the coordinator calls a collaborator and awaits the result; ms = 0
\* stands for a call that is not wrapped in withTimeout
Issue(s, frame, target, name, ms) ==
  LET k == IF frame = "single" THEN s.single.pos ELSE 0
      s1 == [s EXCEPT !.pending = [target |-> target, frame |-> frame,
                                   chat |-> k, name |-> name, ms |-> ms]]
  IN  IF frame = "single"
      THEN [s1 EXCEPT !.runs[k].calls =
                        Append(@, [target |-> target, name |-> name, ms |-> ms])]
      ELSE s1

top_settle(s, ok, err) ==
  [s EXCEPT !.top.pc = IF ok THEN "done" ELSE "failed", !.top.err = err,
            !.pending = NoPending]

\* extractAllChatsToNotion after its extractMultipleChatsToNotion settled
all_onMultiSettled(s) ==
  IF s.allf.pc = "multi"
  THEN (IF s.multi.pc = "done"
        THEN top_settle([s EXCEPT !.allf.pc = "done",
                                  !.allf.results = s.multi.results], TRUE, NoErr)
        ELSE top_settle([s EXCEPT !.allf.pc = "failed",
                                  !.allf.err = s.multi.err], FALSE, s.multi.err))
  ELSE top_settle(s, s.multi.pc = "done", s.multi.err)

multi_return(s) == all_onMultiSettled([s EXCEPT !.multi.pc = "done"])

multi_throw(s, err) ==
  all_onMultiSettled([s EXCEPT !.multi.pc = "failed", !.multi.err = err])

\* extractChatToNotion: "Test Notion connection"
single_probe(s) ==
  [Issue(s, "single", "testConnection", "Notion connection test", 15000)
     EXCEPT !.single.pc = "probe"]

\* extractChatToNotion up to its first await
extractChatToNotion(s, chatId) ==
  LET k == Len(s.runs) + 1
      s1 == [s EXCEPT !.runs = Append(@, NewRun(chatId)),
                      !.single = [NoSingle EXCEPT !.pos = k, !.chatId = chatId]]
  IN  IF ~s1.conn
      THEN [Issue(s1, "single", "connect", "Telegram connection", 30000)
              EXCEPT !.single.pc = "connect"]
      ELSE single_probe(s1)

\* the head of the for loop of extractMultipleChatsToNotion
multi_loop(s) ==
  IF s.multi.i <= Len(s.multi.chatIds)
  THEN extractChatToNotion([s EXCEPT !.multi.pc = "chat"], s.multi.chatIds[s.multi.i])
  ELSE multi_return(s)

\* variant: the failure of a chat ends the whole run
multi_onChatSettled_rethrows(s, ok) ==
  IF s.multi.pc # "chat"
  THEN top_settle(s, ok, s.runs[Len(s.runs)].err)
  ELSE IF ok
  THEN LET s1 == [s EXCEPT !.multi.results = Append(@, s.runs[Len(s.runs)].result)]
       IN  IF s1.multi.i < Len(s1.multi.chatIds)
           THEN [s1 EXCEPT !.multi.pc = "delay", !.pending = NoPending]
           ELSE multi_loop([s1 EXCEPT !.multi.i = @ + 1])
  ELSE multi_throw(s, s.runs[Len(s.runs)].err)

\* the try/catch around extractChatToNotion in the loop: a result is pushed
\* and, unless the chat was the last, the 500 ms pause follows; a failure
\* is logged and the loop goes on
multi_onChatSettled(s, ok) ==
  IF s.multi.pc # "chat"
  THEN top_settle(s, ok, s.runs[Len(s.runs)].err)
  ELSE IF ok
  THEN LET s1 == [s EXCEPT !.multi.results = Append(@, s.runs[Len(s.runs)].result)]
       IN  IF s1.multi.i < Len(s1.multi.chatIds)
           THEN [s1 EXCEPT !.multi.pc = "delay", !.pending = NoPending]
           ELSE multi_loop([s1 EXCEPT !.multi.i = @ + 1])
  ELSE multi_loop([s EXCEPT !.multi.i = @ + 1])

single_return(s, result) ==
  LET k == s.single.pos
  IN  multi_onChatSettled([s EXCEPT !.runs[k].outcome = "ok",
                                    !.runs[k].result = result,
                                    !.single = NoSingle,
                                    !.pending = NoPending], TRUE)

single_throw(s, err) ==
  LET k == s.single.pos
  IN  multi_onChatSettled([s EXCEPT !.runs[k].outcome = "failed",
                                    !.runs[k].err = err,
                                    !.single = NoSingle,
                                    !.pending = NoPending], FALSE)

\* extractChatToNotion: "Get chat information"; TelegramClient.getDialogs
\* throws at once when the client is not connected
single_dialogs(s) ==
  LET s1 == Issue(s, "single", "getDialogs", "Get dialogs", 20000)
  IN  IF ~s.conn THEN single_throw(s1, TransportError)
      ELSE [s1 EXCEPT !.single.pc = "dialogs"]

\* extractChatToNotion: "Get messages from Telegram", the three branches
single_afterDialogs(s, dialogs) ==
  LET s1 == [s EXCEPT !.single.chatName = chatNameOf(dialogs, s.single.chatId),
                      !.single.pc = "fetch"]
      tf == opts.topicFilter
  IN  IF tf.present /\ tf.topicId # 0
      THEN Issue([s1 EXCEPT !.single.mode = "topic", !.single.topics = <<tf.topicId>>],
                 "single", "getMessages", "Get messages from specific topic", 30000)
      ELSE IF tf.present /\ Len(tf.topicIds) > 0
      THEN Issue([s1 EXCEPT !.single.mode = "topics", !.single.topics = tf.topicIds],
                 "single", "getMessages",
                 "Get messages from topic " \o ToString(tf.topicIds[1]), 30000)
      ELSE Issue([s1 EXCEPT !.single.mode = "plain"],
                 "single", "getMessages", "Get messages from Telegram", 30000)

\* variant: addMessages is called with whatever is left, also with nothing
single_process_alwaysUpserts(s, telegramMessages) ==
  LET k == s.single.pos
      filteredMessages == filterMessages(telegramMessages, opts)
      notionMessages == convertToNotionMessages(filteredMessages,
                                                s.single.chatName, s.single.chatId)
      cl == [NoCall EXCEPT !.kind = "batch", !.msgs = notionMessages, !.pc = "await1"]
  IN  Issue([s EXCEPT !.single.pc = "upsert",
                      !.single.telegramMessages = telegramMessages,
                      !.single.notionMessages = notionMessages,
                      !.calls[k] = cl,
                      !.tasks = SpawnBatch(s.tasks, k, cl, 1)],
            "single", "addMessages", "Add messages to Notion", 60000)

\* extractChatToNotion from "Filtering messages" on: filter, convert, return
\* at once when nothing is left, otherwise call addMessages
single_process(s, telegramMessages) ==
  LET k == s.single.pos
      filteredMessages == filterMessages(telegramMessages, opts)
      notionMessages == convertToNotionMessages(filteredMessages,
                                                s.single.chatName, s.single.chatId)
      cl == [NoCall EXCEPT !.kind = "batch", !.msgs = notionMessages, !.pc = "await1"]
  IN  IF Len(notionMessages) = 0
      THEN single_return(s, [chatName |-> s.single.chatName,
                             chatId |-> s.single.chatId,
                             messageCount |-> 0, messages |-> <<>>])
      ELSE Issue([s EXCEPT !.single.pc = "upsert",
                           !.single.telegramMessages = telegramMessages,
                           !.single.notionMessages = notionMessages,
                           !.calls[k] = cl,
                           !.tasks = SpawnBatch(s.tasks, k, cl, 1)],
                 "single", "addMessages", "Add messages to Notion", 60000)

\* variant: the messages of the topics are not cut to the limit
single_afterFetch_keepsAll(s, fetched) ==
  IF s.single.mode = "topics"
  THEN LET acc == s.single.telegramMessages \o fetched
           rest == Tail(s.single.topics)
       IN  IF rest # <<>>
           THEN Issue([s EXCEPT !.single.telegramMessages = acc,
                                !.single.topics = rest],
                      "single", "getMessages",
                      "Get messages from topic " \o ToString(rest[1]), 30000)
           ELSE single_process(s, SortByDateDesc(acc))
  ELSE IF s.single.mode = "topic"
  THEN single_process(s, fetched)
  ELSE IF opts.topicFilter.present /\ ~opts.topicFilter.includeGeneralTopic
  THEN single_process(s, SelectSeq(fetched, LAMBDA msg : msg.topicId = 0))
  ELSE single_process(s, fetched)
\* a getMessages call of extractChatToNotion returned
single_afterFetch(s, fetched) ==
  IF s.single.mode = "topics"
  THEN LET acc == s.single.telegramMessages \o fetched
           rest == Tail(s.single.topics)
       IN  IF rest # <<>>
           THEN Issue([s EXCEPT !.single.telegramMessages = acc,
                                !.single.topics = rest],
                      "single", "getMessages",
                      "Get messages from topic " \o ToString(rest[1]), 30000)
           ELSE single_process(s, SubSeq(SortByDateDesc(acc), 1,
                                         Min(opts.messageLimit, Len(acc))))
  ELSE IF s.single.mode = "topic"
  THEN single_process(s, fetched)
  ELSE IF opts.topicFilter.present /\ ~opts.topicFilter.includeGeneralTopic
  THEN single_process(s, SelectSeq(fetched, LAMBDA msg : msg.topicId = 0))
  ELSE single_process(s, fetched)

\* variant: the count is the number of messages fetched
single_afterUpsert_countsFetched(s) ==
  LET cl == s.calls[s.single.pos]
  IN  IF cl.pc = "done"
      THEN single_return(s, [chatName |-> s.single.chatName,
                             chatId |-> s.single.chatId,
                             messageCount |-> Len(s.single.telegramMessages),
                             messages |-> s.single.notionMessages])
      ELSE single_throw(s, SinkError(cl.err))

\* extractChatToNotion after addMessages settled
single_afterUpsert(s) ==
  LET cl == s.calls[s.single.pos]
  IN  IF cl.pc = "done"
      THEN single_return(s, [chatName |-> s.single.chatName,
                             chatId |-> s.single.chatId,
                             messageCount |-> Len(s.single.notionMessages),
                             messages |-> s.single.notionMessages])
      ELSE single_throw(s, SinkError(cl.err))

multi_probe(s) ==
  [Issue(s, "multi", "testConnection",
         "Notion connection test for multiple chats", 15000)
     EXCEPT !.multi.pc = "probe"]

\* extractMultipleChatsToNotion up to its first await
extractMultipleChatsToNotion(s, chatIds) ==
  LET s1 == [s EXCEPT !.multi = [NoMulti EXCEPT !.chatIds = chatIds, !.i = 1]]
  IN  IF ~s1.conn
      THEN [Issue(s1, "multi", "connect",
                  "Telegram connection for multiple chats", 30000)
              EXCEPT !.multi.pc = "connect"]
      ELSE multi_probe(s1)

all_throw(s, err) ==
  top_settle([s EXCEPT !.allf.pc = "failed", !.allf.err = err], FALSE, err)

\* extractAllChatsToNotion: "Get all dialogs"
all_dialogs(s) ==
  IF ~s.conn THEN all_throw(s, TransportError)
  ELSE [Issue(s, "all", "getDialogs", "Get all dialogs", 25000)
          EXCEPT !.allf.pc = "dialogs"]

all_afterDialogs(s, dialogs) ==
  LET filteredDialogs == filterDialogs(dialogs, opts.chatFilter)
      chatIds == [j \in 1..Len(filteredDialogs) |-> filteredDialogs[j].id]
  IN  IF Len(filteredDialogs) = 0
      THEN top_settle([s EXCEPT !.allf.pc = "done"], TRUE, NoErr)
      ELSE extractMultipleChatsToNotion([s EXCEPT !.allf.pc = "multi"], chatIds)

\* extractAllChatsToNotion up to its first await
extractAllChatsToNotion(s) ==
  IF ~s.conn
  THEN [Issue(s, "all", "connect", "Telegram connection for all chats", 30000)
          EXCEPT !.allf.pc = "connect"]
  ELSE all_dialogs(s)

\* getAvailableChats, getTopics, isForumGroup, queryMessages,
\* getDatabaseStats, createMessagesDatabase: the collaborator call itself,
\* awaited without withTimeout
simple_call(s) ==
  LET name == s.top.name
      target == IF name = "getAvailableChats" THEN "getDialogs" ELSE name
  IN  IF name \in {"getAvailableChats", "getTopics"} /\ ~s.conn
      THEN top_settle(s, FALSE, TransportError)
      ELSE [Issue(s, "simple", target, "", 0) EXCEPT !.top.pc = "call"]

simple_begin(s) ==
  IF s.top.name \in TelegramOps /\ ~s.conn
  THEN [Issue(s, "simple", "connect", "", 0) EXCEPT !.top.pc = "connect"]
  ELSE simple_call(s)

(***************************************************************************)
(* The actions of the coordinator.                                         *)
(***************************************************************************)
SvcFrame ==
  UNCHANGED <<dbSchema, pages, ensLog, edits, opts, tgDialogs, clientVars, applied>>

Invoke_extractChat(chatId) ==
  /\ top.name = "none"
  /\ Commit(extractChatToNotion(
       [Cur EXCEPT !.top = [NoTop EXCEPT !.name = "extractChat", !.pc = "running"]],
       chatId))
  /\ SvcFrame /\ UNCHANGED <<faults, orphans, timeouts>>

Invoke_extractChats(chatIds) ==
  /\ top.name = "none"
  /\ Commit(extractMultipleChatsToNotion(
       [Cur EXCEPT !.top = [NoTop EXCEPT !.name = "extractChats", !.pc = "running"]],
       chatIds))
  /\ SvcFrame /\ UNCHANGED <<faults, orphans, timeouts>>

Invoke_extractAllChats ==
  /\ top.name = "none"
  /\ Commit(extractAllChatsToNotion(
       [Cur EXCEPT !.top = [NoTop EXCEPT !.name = "extractAllChats", !.pc = "running"]]))
  /\ SvcFrame /\ UNCHANGED <<faults, orphans, timeouts>>

Invoke_simple(name) ==
  /\ top.name = "none"
  /\ Commit(simple_begin(
       [Cur EXCEPT !.top = [NoTop EXCEPT !.name = name, !.pc = "running"]]))
  /\ SvcFrame /\ UNCHANGED <<faults, orphans, timeouts>>

\* what the awaiting frame does with the result of connect(), which it
\* does not look at
afterConnect(s) ==
  CASE pending.frame = "single" -> single_probe(s)
    [] pending.frame = "multi" -> multi_probe(s)
    [] pending.frame = "all" -> all_dialogs(s)
    [] OTHER -> simple_call(s)

\* TelegramClient.connect settles: true when a method connected, false when
\* all methods failed (it never throws)
Respond_connect(ok) ==
  /\ pending.target = "connect"
  /\ IF ok THEN UNCHANGED faults ELSE faults < MaxFaults /\ faults' = faults + 1
  /\ Commit(afterConnect([Cur EXCEPT !.conn = ok]))
  /\ SvcFrame /\ UNCHANGED <<orphans, timeouts>>

\* what follows the connectivity probe, whatever it gave
afterProbe(s) ==
  IF pending.frame = "single" THEN single_dialogs(s)
  ELSE multi_loop(s)

\* variant: a probe that gives false ends the extraction
Respond_testConnection_fatal(ok) ==
  /\ pending.target = "testConnection"
  /\ IF ok THEN UNCHANGED faults ELSE faults < MaxFaults /\ faults' = faults + 1
  /\ Commit(IF ok THEN afterProbe(Cur)
            ELSE IF pending.frame = "single" THEN single_throw(Cur, SinkError("other"))
            ELSE multi_throw(Cur, SinkError("other")))
  /\ SvcFrame /\ UNCHANGED <<orphans, timeouts>>

\* NotionClient.testConnection settles with true or with false
Respond_testConnection(ok) ==
  /\ pending.target = "testConnection"
  /\ IF ok THEN UNCHANGED faults ELSE faults < MaxFaults /\ faults' = faults + 1
  /\ Commit(afterProbe(Cur))
  /\ SvcFrame /\ UNCHANGED <<orphans, timeouts>>

Respond_getDialogs(ok) ==
  /\ pending.target = "getDialogs"
  /\ IF ok THEN UNCHANGED faults ELSE faults < MaxFaults /\ faults' = faults + 1
  /\ Commit(CASE pending.frame = "single" ->
                   IF ok THEN single_afterDialogs(Cur, tgDialogs)
                   ELSE single_throw(Cur, TransportError)
              [] pending.frame = "all" ->
                   IF ok THEN all_afterDialogs(Cur, tgDialogs)
                   ELSE all_throw(Cur, TransportError)
              [] OTHER -> top_settle(Cur, ok, IF ok THEN NoErr ELSE TransportError))
  /\ SvcFrame /\ UNCHANGED <<orphans, timeouts>>

Respond_getMessages(ok) ==
  /\ pending.target = "getMessages"
  /\ IF ok THEN UNCHANGED faults ELSE faults < MaxFaults /\ faults' = faults + 1
  /\ Commit(IF ok
            THEN single_afterFetch(Cur,
                   getMessages(single.chatId, opts.messageLimit,
                               IF single.mode = "plain" THEN 0
                               ELSE single.topics[1]))
            ELSE single_throw(Cur, TransportError))
  /\ SvcFrame /\ UNCHANGED <<orphans, timeouts>>

\* the addMessages call awaited by extractChatToNotion has settled
Respond_addMessages ==
  /\ pending.target = "addMessages"
  /\ calls[pending.chat].pc \in {"done", "failed"}
  /\ Commit(single_afterUpsert(Cur))
  /\ SvcFrame /\ UNCHANGED <<faults, orphans, timeouts>>

\* the collaborator call of one of the pass-through operations settles;
\* isForumGroup of the client turns a failure into false
Respond_simple(ok) ==
  /\ pending.frame = "simple"
  /\ pending.target \in (TelegramOps \cup NotionOps) \ {"getAvailableChats"}
  /\ IF ok THEN UNCHANGED faults ELSE faults < MaxFaults /\ faults' = faults + 1
  /\ Commit(IF ok \/ pending.target = "isForumGroup"
            THEN top_settle(Cur, TRUE, NoErr)
            ELSE top_settle(Cur, FALSE,
                            IF pending.target \in NotionOps
                            THEN SinkError("other") ELSE TransportError))
  /\ SvcFrame /\ UNCHANGED <<orphans, timeouts>>

\* the timer of withTimeout fires before the awaited call has settled:
\* the race rejects, the call itself stays in flight
Timeout ==
  /\ pending.target # "none"
  /\ pending.ms > 0
  /\ timeouts < MaxTimeouts
  /\ pending.target = "addMessages" => calls[pending.chat].pc \notin {"done", "failed"}
  /\ timeouts' = timeouts + 1
  /\ orphans' = IF pending.target = "addMessages" THEN orphans
                ELSE orphans \cup {[target |-> pending.target, chat |-> pending.chat]}
  /\ LET err == TimeoutError(pending.name, pending.ms)
     IN  Commit(CASE pending.frame = "single" ->
                       IF pending.target = "testConnection" THEN single_dialogs(Cur)
                       ELSE single_throw(Cur, err)
                  [] pending.frame = "multi" ->
                       IF pending.target = "testConnection" THEN multi_loop(Cur)
                       ELSE multi_throw(Cur, err)
                  [] OTHER -> all_throw(Cur, err))
  /\ SvcFrame /\ UNCHANGED faults

\* a call abandoned by withTimeout settles after all; a late connect leaves
\* the client connected
OrphanSettles(o) ==
  /\ o \in orphans
  /\ orphans' = orphans \ {o}
  /\ tgConnected' = IF o.target = "connect" THEN TRUE ELSE tgConnected
  /\ UNCHANGED <<sinkVars, clientVars, applied, tgDialogs, opts, top, single, multi,
                 allf, runs, pending, timeouts>>

\* the 500 ms pause between two chats is over
multi_afterDelay ==
  /\ multi.pc = "delay"
  /\ Commit(multi_loop([Cur EXCEPT !.multi.i = @ + 1]))
  /\ SvcFrame /\ UNCHANGED <<faults, orphans, timeouts>>

\* one direct addMessage or addMessages call on any collection
NextSink ==
  \/ \E m \in MsgShapes : addMessage_call(m)
  \/ \E ms \in SeqsUpTo(MsgShapes, MaxMsgs) : addMessages_call(ms)
  \/ \E t \in TaskIds : addMessage_propsOk(t)
  \/ \E t \in TaskIds : addMessage_createOk(t)
  \/ \E t \in TaskIds : addMessage_createMissing(t)
  \/ \E t \in TaskIds : addMessage_ensRetrieveOk(t)
  \/ \E t \in TaskIds : addMessage_ensUpdateOk(t)
  \/ \E t \in TaskIds : addMessage_fault(t)
  \/ \E c \in CallIds : addMessages_afterDelay(c)
  \/ \E c \in CallIds : ensureDatabaseSchema_retrieveOk(c)
  \/ \E c \in CallIds : ensureDatabaseSchema_updateOk(c)
  \/ \E c \in CallIds : ensureDatabaseSchema_fault(c)
  \/ \E p \in RemovableProps : ForeignEdit(p)

SpecSink == Init /\ [][NextSink]_vars

\* consecutive direct ensureDatabaseSchema calls on any collection
NextEnsure ==
  \/ ensureDatabaseSchema_call
  \/ \E c \in CallIds : ensureDatabaseSchema_retrieveOk(c)
  \/ \E c \in CallIds : ensureDatabaseSchema_updateOk(c)
  \/ \E c \in CallIds : ensureDatabaseSchema_fault(c)
  \/ \E p \in RemovableProps : ForeignEdit(p)

SpecEnsure == Init /\ [][NextEnsure]_vars

\* the ExtractionOptions the runs are checked with
OptionSet ==
  { DefaultOptions,
    [DefaultOptions EXCEPT !.messageLimit = 1],
    [DefaultOptions EXCEPT !.messageLimit = 1, !.includeOutgoing = FALSE],
    [DefaultOptions EXCEPT !.messageLimit = 1,
       !.topicFilter = [NoTopicFilter EXCEPT !.present = TRUE, !.topicId = 7]],
    [DefaultOptions EXCEPT !.messageLimit = 1,
       !.topicFilter = [NoTopicFilter EXCEPT !.present = TRUE, !.topicIds = <<7, 9>>]],
    [DefaultOptions EXCEPT !.messageLimit = 1,
       !.topicFilter = [NoTopicFilter EXCEPT !.present = TRUE]],
    [DefaultOptions EXCEPT !.messageLimit = 1,
       !.chatFilter = [NoChatFilter EXCEPT !.present = TRUE, !.includeChannels = TRUE]] }

\* the collections the runs start on: a complete one, and one that lacks a
\* property every entry carries
SvcSchemas == {FullSchema("Name"), Restrict(FullSchema("Name"), {"Name"})}

InitSvc ==
  /\ applied = NoApplication
  /\ dbSchema \in SvcSchemas
  /\ pages = {}
  /\ tasks = [t \in TaskIds |-> NoTask]
  /\ calls = [c \in CallIds |-> NoCall]
  /\ ensLog = <<>>
  /\ faults = 0
  /\ edits = 0
  /\ tgConnected = FALSE
  /\ tgDialogs = Dialogs
  /\ opts \in OptionSet
  /\ top = NoTop
  /\ single = NoSingle
  /\ multi = NoMulti
  /\ allf = NoAll
  /\ runs = <<>>
  /\ pending = NoPending
  /\ orphans = {}
  /\ timeouts = 0
  /\ ClientsAtRest

\* one public operation of TelegramToNotionService, with the collaborators'
\* responses, the deadlines, and NotionClient at work underneath
\* (no chat of Source has more than batchSize messages with a text and
\* nobody edits the collection here, so addMessages neither pauses between
\* sub-batches nor reaches its own reconciliation: SvcSinkQuiet)
NextSvc ==
  \/ \E chatId \in ChatIdUniverse : Invoke_extractChat(chatId)
  \/ \E chatIds \in SeqsUpTo(ChatIdUniverse, MaxChats) : Invoke_extractChats(chatIds)
  \/ Invoke_extractAllChats
  \/ \E name \in TelegramOps \cup NotionOps : Invoke_simple(name)
  \/ \E ok \in BOOLEAN : Respond_connect(ok)
  \/ \E ok \in BOOLEAN : Respond_testConnection(ok)
  \/ \E ok \in BOOLEAN : Respond_getDialogs(ok)
  \/ \E ok \in BOOLEAN : Respond_getMessages(ok)
  \/ Respond_addMessages
  \/ \E ok \in BOOLEAN : Respond_simple(ok)
  \/ Timeout
  \/ \E o \in orphans : OrphanSettles(o)
  \/ multi_afterDelay
  \/ \E t \in TaskIds : addMessage_propsOk(t)
  \/ \E t \in TaskIds : addMessage_createOk(t)
  \/ \E t \in TaskIds : addMessage_createMissing(t)
  \/ \E t \in TaskIds : addMessage_ensRetrieveOk(t)
  \/ \E t \in TaskIds : addMessage_ensUpdateOk(t)
  \/ \E t \in TaskIds : addMessage_fault(t)

SpecSvc == InitSvc /\ [][NextSvc]_vars

SvcSinkQuiet ==
  \A c \in CallIds : calls[c].pc \notin {"delay", "ens_retrieve", "ens_update"}

\* the chats and the ExtractionOptions single extractions are checked with
ExtractChatIds == {"100", "300", "400", "500", "600"}

ExtractOptionSet ==
  { DefaultOptions,
    [DefaultOptions EXCEPT !.includeOutgoing = FALSE],
    [DefaultOptions EXCEPT !.includeMedia = FALSE],
    [DefaultOptions EXCEPT !.includeOutgoing = FALSE, !.includeMedia = FALSE],
    [DefaultOptions EXCEPT !.messageLimit = 1],
    [DefaultOptions EXCEPT !.messageLimit = 2],
    [DefaultOptions EXCEPT !.dateFilter = [present |-> TRUE, hasFrom |-> TRUE,
       from |-> 200000, hasTo |-> TRUE, to |-> 300000]],
    [DefaultOptions EXCEPT !.dateFilter = [present |-> TRUE, hasFrom |-> TRUE,
       from |-> 200000, hasTo |-> FALSE, to |-> 0]],
    [DefaultOptions EXCEPT !.dateFilter = [present |-> TRUE, hasFrom |-> FALSE,
       from |-> 0, hasTo |-> TRUE, to |-> 300000]],
    [DefaultOptions EXCEPT !.messageLimit = 2,
       !.topicFilter = [NoTopicFilter EXCEPT !.present = TRUE, !.topicIds = <<7, 9>>]],
    [DefaultOptions EXCEPT !.messageLimit = 2,
       !.topicFilter = [NoTopicFilter EXCEPT !.present = TRUE, !.topicIds = <<9, 7>>]],
    [DefaultOptions EXCEPT !.messageLimit = 1,
       !.topicFilter = [NoTopicFilter EXCEPT !.present = TRUE, !.topicId = 7]] }

InitExtract ==
  /\ applied = NoApplication
  /\ dbSchema \in SvcSchemas
  /\ pages = {}
  /\ tasks = [t \in TaskIds |-> NoTask]
  /\ calls = [c \in CallIds |-> NoCall]
  /\ ensLog = <<>>
  /\ faults = 0
  /\ edits = 0
  /\ tgConnected = FALSE
  /\ tgDialogs = Dialogs
  /\ opts \in ExtractOptionSet
  /\ top = NoTop
  /\ single = NoSingle
  /\ multi = NoMulti
  /\ allf = NoAll
  /\ runs = <<>>
  /\ pending = NoPending
  /\ orphans = {}
  /\ timeouts = 0
  /\ ClientsAtRest

\* one extractChatToNotion call, with the collaborators' responses, the
\* deadlines, and NotionClient at work underneath
NextExtract ==
  \/ \E chatId \in ExtractChatIds : Invoke_extractChat(chatId)
  \/ \E ok \in BOOLEAN : Respond_connect(ok)
  \/ \E ok \in BOOLEAN : Respond_testConnection(ok)
  \/ \E ok \in BOOLEAN : Respond_getDialogs(ok)
  \/ \E ok \in BOOLEAN : Respond_getMessages(ok)
  \/ Respond_addMessages
  \/ Timeout
  \/ \E o \in orphans : OrphanSettles(o)
  \/ \E t \in TaskIds : addMessage_propsOk(t)
  \/ \E t \in TaskIds : addMessage_createOk(t)
  \/ \E t \in TaskIds : addMessage_createMissing(t)
  \/ \E t \in TaskIds : addMessage_ensRetrieveOk(t)
  \/ \E t \in TaskIds : addMessage_ensUpdateOk(t)
  \/ \E t \in TaskIds : addMessage_fault(t)
  \/ \E c \in CallIds : addMessages_afterDelay(c)

SpecExtract == InitExtract /\ [][NextExtract]_vars

\* the chats and options of the repeated extraction
RepeatChatIds == {"300", "400"}

RepeatOptionSet ==
  { DefaultOptions,
    [DefaultOptions EXCEPT !.includeOutgoing = FALSE],
    [DefaultOptions EXCEPT !.messageLimit = 2] }

InitRepeat ==
  /\ applied = NoApplication
  /\ dbSchema \in SvcSchemas
  /\ pages = {}
  /\ tasks = [t \in TaskIds |-> NoTask]
  /\ calls = [c \in CallIds |-> NoCall]
  /\ ensLog = <<>>
  /\ faults = 0
  /\ edits = 0
  /\ tgConnected = FALSE
  /\ tgDialogs = Dialogs
  /\ opts \in RepeatOptionSet
  /\ top = NoTop
  /\ single = NoSingle
  /\ multi = NoMulti
  /\ allf = NoAll
  /\ runs = <<>>
  /\ pending = NoPending
  /\ orphans = {}
  /\ timeouts = 0
  /\ ClientsAtRest

\* extractChatToNotion twice in a row on one chat, as the loop of
\* extractMultipleChatsToNotion runs it for a chat that is listed twice
NextRepeat ==
  \/ \E chatId \in RepeatChatIds : Invoke_extractChats(<<chatId, chatId>>)
  \/ \E ok \in BOOLEAN : Respond_connect(ok)
  \/ \E ok \in BOOLEAN : Respond_testConnection(ok)
  \/ \E ok \in BOOLEAN : Respond_getDialogs(ok)
  \/ \E ok \in BOOLEAN : Respond_getMessages(ok)
  \/ Respond_addMessages
  \/ Timeout
  \/ \E o \in orphans : OrphanSettles(o)
  \/ multi_afterDelay
  \/ \E t \in TaskIds : addMessage_propsOk(t)
  \/ \E t \in TaskIds : addMessage_createOk(t)
  \/ \E t \in TaskIds : addMessage_createMissing(t)
  \/ \E t \in TaskIds : addMessage_ensRetrieveOk(t)
  \/ \E t \in TaskIds : addMessage_ensUpdateOk(t)
  \/ \E t \in TaskIds : addMessage_fault(t)
  \/ \E c \in CallIds : addMessages_afterDelay(c)

SpecRepeat == InitRepeat /\ [][NextRepeat]_vars

\* the dialogs extractAllChatsToNotion is checked with: one of each kind
DialogUniverse ==
  { [id |-> "100", title |-> "Team", isUser |-> TRUE, isGroup |-> FALSE,
     isChannel |-> FALSE],
    [id |-> "200", title |-> "News", isUser |-> FALSE, isGroup |-> FALSE,
     isChannel |-> TRUE],
    [id |-> "700", title |-> "Crew", isUser |-> FALSE, isGroup |-> TRUE,
     isChannel |-> FALSE] }

\* the listings of the account: up to MaxChats different dialogs, any order
Listings ==
  {l \in SeqsUpTo(DialogUniverse, MaxChats) :
     \A i, j \in 1..Len(l) : i # j => l[i] # l[j]}

\* no chatFilter, and every combination of the three include* options
AllOptionSet ==
  {[DefaultOptions EXCEPT !.messageLimit = 1]} \cup
  {[DefaultOptions EXCEPT !.messageLimit = 1,
      !.chatFilter = [present |-> TRUE, includeUsers |-> u,
                      includeGroups |-> g, includeChannels |-> c]] :
     u \in BOOLEAN, g \in BOOLEAN, c \in BOOLEAN}

InitAll ==
  /\ applied = NoApplication
  /\ dbSchema \in SvcSchemas
  /\ pages = {}
  /\ tasks = [t \in TaskIds |-> NoTask]
  /\ calls = [c \in CallIds |-> NoCall]
  /\ ensLog = <<>>
  /\ faults = 0
  /\ edits = 0
  /\ tgConnected = FALSE
  /\ tgDialogs \in Listings
  /\ opts \in AllOptionSet
  /\ top = NoTop
  /\ single = NoSingle
  /\ multi = NoMulti
  /\ allf = NoAll
  /\ runs = <<>>
  /\ pending = NoPending
  /\ orphans = {}
  /\ timeouts = 0
  /\ ClientsAtRest

\* one extractAllChatsToNotion call, with the collaborators' responses, the
\* deadlines, and NotionClient at work underneath
NextAll ==
  \/ Invoke_extractAllChats
  \/ \E ok \in BOOLEAN : Respond_connect(ok)
  \/ \E ok \in BOOLEAN : Respond_testConnection(ok)
  \/ \E ok \in BOOLEAN : Respond_getDialogs(ok)
  \/ \E ok \in BOOLEAN : Respond_getMessages(ok)
  \/ Respond_addMessages
  \/ Timeout
  \/ \E o \in orphans : OrphanSettles(o)
  \/ multi_afterDelay
  \/ \E t \in TaskIds : addMessage_propsOk(t)
  \/ \E t \in TaskIds : addMessage_createOk(t)
  \/ \E t \in TaskIds : addMessage_createMissing(t)
  \/ \E t \in TaskIds : addMessage_ensRetrieveOk(t)
  \/ \E t \in TaskIds : addMessage_ensUpdateOk(t)
  \/ \E t \in TaskIds : addMessage_fault(t)

SpecAll == InitAll /\ [][NextAll]_vars

(***************************************************************************)
(* NotionClient.getDatabaseStats.                                          *)
(***************************************************************************)
\* the size of the page databases.query is asked for (100 in the code)
page_size == 3

\* the collections the statistics are taken of hold up to MaxEntries entries
MaxEntries == page_size + 1

\* an entry, reduced to its Chat and Direction properties; "" stands for a
\* property the entry lacks
Entries == [Chat : {"A", "B", ""}, Direction : {"Incoming", "Outgoing", ""}]

\* databases.query: the first page of the collection
databasesQuery(entries, size) == SubSeq(entries, 1, Min(Len(entries), size))

\* properties.Chat?.rich_text?.[0]?.text?.content || 'Unknown', and the
\* same for Direction
nameOf(page, key) == IF page[key] = "" THEN "Unknown" ELSE page[key]

\* variant: an entry that lacks the property is not counted
countBy_skipsAbsent(results, key) ==
  LET names == {results[j][key] : j \in 1..Len(results)} \ {""}
  IN  [n \in names |->
         Cardinality({j \in 1..Len(results) : results[j][key] = n})]

\* counts[name] = (counts[name] || 0) + 1 over the results
countBy(results, key) ==
  LET names == {nameOf(results[j], key) : j \in 1..Len(results)}
  IN  [n \in names |->
         Cardinality({j \in 1..Len(results) : nameOf(results[j], key) = n})]

getDatabaseStats(results) ==
  [totalMessages |-> Len(results),
   chatCounts |-> countBy(results, "Chat"),
   directionCounts |-> countBy(results, "Direction")]

ClientFrame ==
  UNCHANGED <<sinkVars, tgDialogs, opts, top, single, multi, allf, runs,
              pending, orphans, timeouts, applied>>

\* getDatabaseStats up to its await: the query is sent
getDatabaseStats_call ==
  /\ clientCall.name = "none"
  /\ clientCall' = [NoClientCall EXCEPT !.name = "getDatabaseStats", !.pc = "query"]
  /\ apiLog' = Append(apiLog, [api |-> "databases.query", page_size |-> page_size])
  /\ UNCHANGED <<tgClient, tgConnected, remote>>
  /\ ClientFrame

\* the query answered: the counts are taken and returned
getDatabaseStats_queryOk ==
  /\ clientCall.name = "getDatabaseStats"
  /\ clientCall.pc = "query"
  /\ clientCall' = [clientCall EXCEPT
       !.pc = "done",
       !.result = getDatabaseStats(databasesQuery(remote.entries, page_size))]
  /\ UNCHANGED <<tgClient, tgConnected, remote, apiLog>>
  /\ ClientFrame

\* the query failed: the error is logged and thrown again
getDatabaseStats_queryFail ==
  /\ clientCall.name = "getDatabaseStats"
  /\ clientCall.pc = "query"
  /\ clientCall' = [clientCall EXCEPT !.pc = "failed", !.err = SinkError("other")]
  /\ UNCHANGED <<tgClient, tgConnected, remote, apiLog>>
  /\ ClientFrame

InitStats ==
  /\ applied = NoApplication
  /\ dbSchema = FullSchema("Name")
  /\ pages = {}
  /\ tasks = [t \in TaskIds |-> NoTask]
  /\ calls = [c \in CallIds |-> NoCall]
  /\ ensLog = <<>>
  /\ faults = 0
  /\ edits = 0
  /\ tgConnected = FALSE
  /\ tgDialogs = Dialogs
  /\ opts = DefaultOptions
  /\ top = NoTop
  /\ single = NoSingle
  /\ multi = NoMulti
  /\ allf = NoAll
  /\ runs = <<>>
  /\ pending = NoPending
  /\ orphans = {}
  /\ timeouts = 0
  /\ tgClient = NoClient
  /\ remote \in {[NoRemote EXCEPT !.entries = e] : e \in SeqsUpTo(Entries, MaxEntries)}
  /\ clientCall = NoClientCall
  /\ apiLog = <<>>

\* one getDatabaseStats call on any collection
NextStats ==
  \/ getDatabaseStats_call
  \/ getDatabaseStats_queryOk
  \/ getDatabaseStats_queryFail

SpecStats == InitStats /\ [][NextStats]_vars

(***************************************************************************)
(* TelegramClient: connect, getTopics and isForumGroup, one action per     *)
(* await.                                                                  *)
(***************************************************************************)
\* the calls made on one TelegramClient, one after another
MaxClientCalls == 2

\* the topics a forum is checked with
MaxTopics == 2
TopicIdSet == 1..MaxTopics + 1
\* seconds; 0 stands for an absent date
TopicDates == 0..2

\* connectionConfigs, by name, in the order of the array
connectionConfigs == <<"TCP without WSS", "TCP with WSS">>

\* throw new Error('Client not connected. Call connect() first.') and
\* throw new Error('Client not connected')
NotConnectedError == [kind |-> "not connected", op |-> "", ms |-> 0]

ClientCallIdle ==
  /\ clientCall.pc \in {"none", "done", "failed"}
  /\ clientCall.seq < MaxClientCalls

NewClientCall(name) ==
  [NoClientCall EXCEPT !.name = name, !.seq = clientCall.seq + 1]

Request(api) == [api |-> api, config |-> tgClient.config]

\* one round of the for loop of connect, up to the first await of
\* attemptConnection: the client is made anew with the i-th configuration;
\* a stored session is tried with client.connect(), otherwise client.start()
\* authenticates
connect_attempt(cl, session, log) ==
  LET name == connectionConfigs[cl.i]
      api == IF session THEN "client.connect" ELSE "client.start"
  IN  /\ tgClient' = [config |-> name, session |-> session]
      /\ clientCall' = [cl EXCEPT !.pc = api]
      /\ apiLog' = Append(log, [api |-> api, config |-> name])

\* connect() up to its first await
connect_call ==
  /\ ClientCallIdle
  /\ connect_attempt([NewClientCall("connect") EXCEPT !.i = 1], tgClient.session, <<>>)
  /\ tgConnected' = FALSE
  /\ UNCHANGED remote
  /\ ClientFrame

\* client.connect() returned: with client.connected, attemptConnection and
\* connect return true; otherwise the authentication is started
attemptConnection_connectOk(connected) ==
  /\ clientCall.name = "connect"
  /\ clientCall.pc = "client.connect"
  /\ tgConnected' = connected
  /\ IF connected
     THEN /\ clientCall' = [clientCall EXCEPT !.pc = "done", !.result = TRUE]
          /\ UNCHANGED apiLog
     ELSE /\ clientCall' = [clientCall EXCEPT !.pc = "client.start"]
          /\ apiLog' = Append(apiLog, Request("client.start"))
  /\ UNCHANGED <<tgClient, remote>>
  /\ ClientFrame

\* client.connect() threw: the session is dropped, the error reaches the
\* catch of connect, which disconnects the client
attemptConnection_connectFail ==
  /\ clientCall.name = "connect"
  /\ clientCall.pc = "client.connect"
  /\ tgClient' = [tgClient EXCEPT !.session = FALSE]
  /\ tgConnected' = FALSE
  /\ clientCall' = [clientCall EXCEPT !.pc = "client.disconnect"]
  /\ apiLog' = Append(apiLog, Request("client.disconnect"))
  /\ UNCHANGED remote
  /\ ClientFrame

\* client.start() returned: the session is saved, attemptConnection and
\* connect return true
attemptConnection_startOk ==
  /\ clientCall.name = "connect"
  /\ clientCall.pc = "client.start"
  /\ tgClient' = [tgClient EXCEPT !.session = TRUE]
  /\ tgConnected' = TRUE
  /\ clientCall' = [clientCall EXCEPT !.pc = "done", !.result = TRUE]
  /\ UNCHANGED <<remote, apiLog>>
  /\ ClientFrame

\* client.start() threw (onError and an authentication error drop the
\* session): the error reaches the catch of connect
attemptConnection_startFail(dropSession) ==
  /\ clientCall.name = "connect"
  /\ clientCall.pc = "client.start"
  /\ tgClient' = [tgClient EXCEPT !.session = IF dropSession THEN FALSE ELSE @]
  /\ tgConnected' = FALSE
  /\ clientCall' = [clientCall EXCEPT !.pc = "client.disconnect"]
  /\ apiLog' = Append(apiLog, Request("client.disconnect"))
  /\ UNCHANGED remote
  /\ ClientFrame

\* variant: the first failure ends connect
connect_afterDisconnect_givesUp ==
  /\ clientCall.name = "connect"
  /\ clientCall.pc = "client.disconnect"
  /\ tgConnected' = FALSE
  /\ clientCall' = [clientCall EXCEPT !.pc = "done", !.result = FALSE]
  /\ UNCHANGED <<tgClient, apiLog, remote>>
  /\ ClientFrame

\* the disconnect in the catch of connect settled, its failure ignored: the
\* next method is tried; after the last one connect returns false
connect_afterDisconnect ==
  /\ clientCall.name = "connect"
  /\ clientCall.pc = "client.disconnect"
  /\ tgConnected' = FALSE
  /\ IF clientCall.i < Len(connectionConfigs)
     THEN connect_attempt([clientCall EXCEPT !.i = @ + 1], tgClient.session, apiLog)
     ELSE /\ clientCall' = [clientCall EXCEPT !.pc = "done", !.result = FALSE]
          /\ UNCHANGED <<tgClient, apiLog>>
  /\ UNCHANGED remote
  /\ ClientFrame

\* isForumGroup up to its first await: without a client it throws
isForumGroup_call ==
  /\ ClientCallIdle
  /\ IF tgClient.config = "none"
     THEN /\ clientCall' = [NewClientCall("isForumGroup") EXCEPT
                              !.pc = "failed", !.err = NotConnectedError]
          /\ apiLog' = <<>>
     ELSE /\ clientCall' = [NewClientCall("isForumGroup") EXCEPT !.pc = "GetFullChannel"]
          /\ apiLog' = <<Request("GetFullChannel")>>
  /\ UNCHANGED <<tgClient, tgConnected, remote>>
  /\ ClientFrame

\* GetFullChannel answered: !!chatInfo.forum
isForumGroup_fullChannelOk ==
  /\ clientCall.name = "isForumGroup"
  /\ clientCall.pc = "GetFullChannel"
  /\ tgConnected
  /\ clientCall' = [clientCall EXCEPT !.pc = "done", !.result = remote.forum]
  /\ UNCHANGED <<tgClient, tgConnected, remote, apiLog>>
  /\ ClientFrame

\* the request failed: the catch warns and returns false
isForumGroup_fullChannelFail ==
  /\ clientCall.name = "isForumGroup"
  /\ clientCall.pc = "GetFullChannel"
  /\ clientCall' = [clientCall EXCEPT !.pc = "done", !.result = FALSE]
  /\ UNCHANGED <<tgClient, tgConnected, remote, apiLog>>
  /\ ClientFrame

\* what GetForumTopics lists of a topic, and what a scan of the history
\* finds of it
ApiTopics == [id : TopicIdSet, date : TopicDates]

\* the topics in the order the remote lists them, no id twice
TopicListings ==
  {l \in SeqsUpTo(ApiTopics, MaxTopics) :
     \A i, j \in 1..Len(l) : i # j => l[i].id # l[j].id}

\* the TopicInfo entered into topicsMap (date 0: lastMessageDate undefined)
TopicInfo(topic) ==
  [id |-> topic.id, messageCount |-> 0, lastMessageDate |-> topic.date]

\* Method 2 reads the history in batches of 100 messages, at most
\* maxBatches of them (10 in the source), and Method 3 probes at most
\* maxCountAttempts topics (20 in the source)
maxBatches == 2
maxCountAttempts == 2

\* the history of the chat as successive non-empty batches, newest first:
\* of a batch, the topics its messages reveal (none: plain messages), each
\* with the date of the message that revealed it; past the last batch the
\* remote answers with no message
ScanHistories ==
  LET plain == <<>>
      one == <<[id |-> 3, date |-> 1]>>
      two == <<[id |-> 1, date |-> 1], [id |-> 2, date |-> 0]>>
  IN  { <<>>, <<one>>, <<two, one>>, <<one, one>>, <<plain, one, two>> }

\* the batch the remote answers the fetch number batch with
historyBatch(history, batch) ==
  IF batch <= Len(history) THEN [messages |-> TRUE, topics |-> history[batch]]
  ELSE [messages |-> FALSE, topics |-> <<>>]

\* the map after the topics of one batch: a topic the map has is left alone
RECURSIVE addScanned(_, _)
addScanned(topicsMap, topics) ==
  IF Len(topics) = 0 THEN topicsMap
  ELSE LET t == topics[1]
           has == \E j \in 1..Len(topicsMap) : topicsMap[j].id = t.id
       IN  addScanned(IF has THEN topicsMap ELSE Append(topicsMap, TopicInfo(t)),
                      Tail(topics))

\* the comparator of the final sort gives a negative number: a goes first
topicBefore(a, b) ==
  IF a.lastMessageDate # 0 /\ b.lastMessageDate # 0
  THEN b.lastMessageDate - a.lastMessageDate < 0
  ELSE IF a.lastMessageDate # 0 THEN TRUE
  ELSE IF b.lastMessageDate # 0 THEN FALSE
  ELSE b.id - a.id < 0

\* Array.prototype.sort with that comparator: stable, so topics the
\* comparator gives 0 for keep the order of topicsMap
RECURSIVE sortTopics(_)
sortTopics(topics) ==
  IF Len(topics) = 0 THEN <<>>
  ELSE LET t == topics[Len(topics)]
           sorted == sortTopics(SubSeq(topics, 1, Len(topics) - 1))
           before == SelectSeq(sorted, LAMBDA x : ~topicBefore(t, x))
           after == SelectSeq(sorted, LAMBDA x : topicBefore(t, x))
       IN  before \o <<t>> \o after

\* a loop over the map that has no limit of attempts
getTopics_count_unbounded(cl, log) ==
  IF cl.i <= Len(cl.topicsMap)
  THEN /\ clientCall' = [cl EXCEPT !.pc = "count"]
       /\ apiLog' = Append(log, Request("getMessages"))
  ELSE /\ clientCall' = [cl EXCEPT !.pc = "done", !.result = sortTopics(cl.topicsMap)]
       /\ apiLog' = log
\* Method 3 for the i-th topic of the map, or, past the last one or with
\* the attempts used up, the sort and the return
getTopics_count(cl, log) ==
  IF cl.i <= Len(cl.topicsMap) /\ cl.countAttempts < maxCountAttempts
  THEN /\ clientCall' = [cl EXCEPT !.pc = "count"]
       /\ apiLog' = Append(log, Request("getMessages"))
  ELSE /\ clientCall' = [cl EXCEPT !.pc = "done", !.result = sortTopics(cl.topicsMap)]
       /\ apiLog' = log

\* getTopics up to its first await: without a connected client it throws
getTopics_call ==
  /\ ClientCallIdle
  /\ IF tgClient.config = "none" \/ ~tgConnected
     THEN /\ clientCall' = [NewClientCall("getTopics") EXCEPT
                              !.pc = "failed", !.err = NotConnectedError]
          /\ apiLog' = <<>>
     ELSE /\ clientCall' = [NewClientCall("getTopics") EXCEPT !.pc = "GetFullChannel"]
          /\ apiLog' = <<Request("GetFullChannel")>>
  /\ UNCHANGED <<tgClient, tgConnected, remote>>
  /\ ClientFrame

\* GetFullChannel answered: a chat that is no forum has no topics
getTopics_fullChannelOk ==
  /\ clientCall.name = "getTopics"
  /\ clientCall.pc = "GetFullChannel"
  /\ IF ~remote.forum
     THEN /\ clientCall' = [clientCall EXCEPT !.pc = "done", !.result = <<>>]
          /\ UNCHANGED apiLog
     ELSE /\ clientCall' = [clientCall EXCEPT !.pc = "GetForumTopics"]
          /\ apiLog' = Append(apiLog, Request("GetForumTopics"))
  /\ UNCHANGED <<tgClient, tgConnected, remote>>
  /\ ClientFrame

\* a request outside the inner try blocks failed: logged and thrown again
getTopics_fail ==
  /\ clientCall.name = "getTopics"
  /\ clientCall.pc \in {"GetFullChannel", "scan"}
  /\ clientCall' = [clientCall EXCEPT !.pc = "failed", !.err = TransportError]
  /\ UNCHANGED <<tgClient, tgConnected, remote, apiLog>>
  /\ ClientFrame

\* Method 1 answered (ok) or failed, which is swallowed: the listed topics
\* enter the map; an empty map is filled by the scan of Method 2
getTopics_forumTopics(ok) ==
  /\ clientCall.name = "getTopics"
  /\ clientCall.pc = "GetForumTopics"
  /\ LET listed == IF ok THEN remote.forumTopics ELSE <<>>
         cl == [clientCall EXCEPT
                  !.topicsMap = [j \in 1..Len(listed) |-> TopicInfo(listed[j])],
                  !.i = 1]
     IN  IF Len(listed) = 0
         THEN /\ clientCall' = [cl EXCEPT !.pc = "scan", !.batch = 1]
              /\ apiLog' = Append(apiLog, Request("client.getMessages"))
         ELSE getTopics_count(cl, apiLog)
  /\ UNCHANGED <<tgClient, tgConnected, remote>>
  /\ ClientFrame

\* Method 2, one batch of client.getMessages answered (the look-ups of the
\* root messages are part of the step): no message ends the search; else
\* every topic found enters the map, and the next batch is asked for
\* unless this was the last of maxBatches
getTopics_scanOk ==
  /\ clientCall.name = "getTopics"
  /\ clientCall.pc = "scan"
  /\ LET answer == historyBatch(remote.history, clientCall.batch)
         cl == [clientCall EXCEPT !.topicsMap = addScanned(@, answer.topics)]
     IN  IF ~answer.messages
         THEN getTopics_count(clientCall, apiLog)
         ELSE IF clientCall.batch < maxBatches
         THEN /\ clientCall' = [cl EXCEPT !.batch = @ + 1]
              /\ apiLog' = Append(apiLog, Request("client.getMessages"))
         ELSE getTopics_count(cl, apiLog)
  /\ UNCHANGED <<tgClient, tgConnected, remote>>
  /\ ClientFrame

\* Method 3, getMessages(chatId, 5, {topicId}) answered with n messages,
\* the newest of date latest: the count is kept, and the date when the
\* topic had none or an older one
getTopics_countOk(n, latest) ==
  /\ clientCall.name = "getTopics"
  /\ clientCall.pc = "count"
  /\ (n = 0) = (latest = 0)
  /\ LET i == clientCall.i
         old == clientCall.topicsMap[i]
         new == [old EXCEPT
                   !.messageCount = n,
                   !.lastMessageDate =
                      IF n > 0 /\ (@ = 0 \/ latest > @) THEN latest ELSE @]
     IN  getTopics_count([clientCall EXCEPT !.topicsMap[i] = new, !.i = i + 1,
                                            !.countAttempts = @ + 1],
                         apiLog)
  /\ UNCHANGED <<tgClient, tgConnected, remote>>
  /\ ClientFrame

\* a failed probe thrown on to the outer catch
getTopics_countFail_throws ==
  /\ clientCall.name = "getTopics"
  /\ clientCall.pc = "count"
  /\ clientCall' = [clientCall EXCEPT !.pc = "failed", !.err = TransportError,
                                      !.warnings = @ + 1]
  /\ UNCHANGED <<tgClient, tgConnected, remote, apiLog>>
  /\ ClientFrame
\* Method 3 failed for the topic: a warning, the topic stays as it is
getTopics_countFail ==
  /\ clientCall.name = "getTopics"
  /\ clientCall.pc = "count"
  /\ getTopics_count([clientCall EXCEPT !.i = @ + 1, !.countAttempts = @ + 1,
                                        !.warnings = @ + 1],
                     apiLog)
  /\ UNCHANGED <<tgClient, tgConnected, remote>>
  /\ ClientFrame

\* what client.getMessages of the library answers with: of a message its
\* id and the replyToTopId of its replyTo (0: none)
RawAnswers ==
  { <<>>, <<[id |-> 5, replyToTopId |-> 0]>>, <<[id |-> 6, replyToTopId |-> 1]>> }

\* TelegramClient.getMessages up to its await (topicId 0: options.topicId
\* undefined): without a connected client it throws, otherwise the request
\* goes out with replyTo and topMsgId set to the topic
TelegramClient_getMessages_call(topicId) ==
  /\ ClientCallIdle
  /\ IF tgClient.config = "none" \/ ~tgConnected
     THEN /\ clientCall' = [NewClientCall("getMessages") EXCEPT
                              !.pc = "failed", !.err = NotConnectedError,
                              !.topicId = topicId]
          /\ apiLog' = <<>>
     ELSE /\ clientCall' = [NewClientCall("getMessages") EXCEPT
                              !.pc = "client.getMessages", !.topicId = topicId]
          /\ apiLog' = <<[Request("client.getMessages") EXCEPT !.api =
                            IF topicId = 0 THEN @ ELSE "client.getMessages replyTo"]>>
  /\ UNCHANGED <<tgClient, tgConnected, remote>>
  /\ ClientFrame

\* the library answered with messages: each is mapped to a MessageInfo,
\* topicId: replyToTopId || options.topicId. The code looks at nothing of
\* the chat; a chat that is no forum has no message of a topic
TelegramClient_getMessages_ok(messages) ==
  /\ clientCall.name = "getMessages"
  /\ clientCall.pc = "client.getMessages"
  /\ clientCall.topicId # 0 /\ ~remote.forum => messages = <<>>
  /\ clientCall' =
       [clientCall EXCEPT
          !.pc = "done",
          !.result = [j \in 1..Len(messages) |->
                        [id |-> messages[j].id,
                         topicId |-> IF messages[j].replyToTopId # 0
                                     THEN messages[j].replyToTopId
                                     ELSE clientCall.topicId]]]
  /\ UNCHANGED <<tgClient, tgConnected, remote, apiLog>>
  /\ ClientFrame

\* the library rejected the request: the catch logs the error and throws it
\* again
TelegramClient_getMessages_fail ==
  /\ clientCall.name = "getMessages"
  /\ clientCall.pc = "client.getMessages"
  /\ clientCall' = [clientCall EXCEPT !.pc = "failed", !.err = TransportError]
  /\ UNCHANGED <<tgClient, tgConnected, remote, apiLog>>
  /\ ClientFrame
InitTelegram ==
  /\ applied = NoApplication
  /\ dbSchema = FullSchema("Name")
  /\ pages = {}
  /\ tasks = [t \in TaskIds |-> NoTask]
  /\ calls = [c \in CallIds |-> NoCall]
  /\ ensLog = <<>>
  /\ faults = 0
  /\ edits = 0
  /\ tgConnected = FALSE
  /\ tgDialogs = Dialogs
  /\ opts = DefaultOptions
  /\ top = NoTop
  /\ single = NoSingle
  /\ multi = NoMulti
  /\ allf = NoAll
  /\ runs = <<>>
  /\ pending = NoPending
  /\ orphans = {}
  /\ timeouts = 0
  /\ tgClient \in {[NoClient EXCEPT !.session = b] : b \in BOOLEAN}
  /\ remote \in {NoRemote} \cup
                {[NoRemote EXCEPT !.forum = TRUE, !.forumTopics = l, !.history = h] :
                   l \in TopicListings, h \in ScanHistories}
  /\ clientCall = NoClientCall
  /\ apiLog = <<>>

\* up to MaxClientCalls calls, one after another, on one TelegramClient
NextTelegram ==
  \/ connect_call
  \/ \E connected \in BOOLEAN : attemptConnection_connectOk(connected)
  \/ attemptConnection_connectFail
  \/ attemptConnection_startOk
  \/ \E dropSession \in BOOLEAN : attemptConnection_startFail(dropSession)
  \/ connect_afterDisconnect
  \/ isForumGroup_call
  \/ isForumGroup_fullChannelOk
  \/ isForumGroup_fullChannelFail
  \/ getTopics_call
  \/ getTopics_fullChannelOk
  \/ getTopics_fail
  \/ \E ok \in BOOLEAN : getTopics_forumTopics(ok)
  \/ getTopics_scanOk
  \/ \E n \in 0..1, latest \in TopicDates : getTopics_countOk(n, latest)
  \/ getTopics_countFail
  \/ \E topicId \in 0..1 : TelegramClient_getMessages_call(topicId)
  \/ \E messages \in RawAnswers : TelegramClient_getMessages_ok(messages)
  \/ TelegramClient_getMessages_fail

SpecTelegram == InitTelegram /\ [][NextTelegram]_vars

(***************************************************************************)
(* Functions applied on their own: getSenderName on the messages a chat    *)
(* can hold, and the texts createMessageProperties writes for a content.   *)
(***************************************************************************)

\* the senders a message can come with: none, or an entity with any of
\* first name, last name, username and title
Senders ==
  {NoSender} \cup
  [present : {TRUE}, firstName : {"", "Ann"}, lastName : {"", "Lee"},
   username : {"", "ann"}, title : {"", "Team"}]

\* of a MessageInfo, what getSenderName reads
SenderMessages == [isOutgoing : BOOLEAN, sender : Senders, fromId : {"", "42"}]

\* the longest content applied
MaxContent == 102

\* a text is the sequence of its characters
Ellipsis == <<".", ".", ".">>
NoContentText == <<"[", "N", "o", " ", "c", "o", "n", "t", "e", "n", "t", "]">>

\* the length truncateText is called with for the title
titleMaxLength == 100

\* variant: the cut keeps maxLength characters before the dots
truncateText_keepsMaxLength(text, maxLength) ==
  IF Len(text) <= maxLength THEN text
  ELSE SubSeq(text, 1, maxLength) \o Ellipsis

\* "Truncate text to specified length"
truncateText(text, maxLength) ==
  IF Len(text) <= maxLength THEN text
  ELSE SubSeq(text, 1, maxLength - 3) \o Ellipsis

\* the texts createMessageProperties writes into the title property and
\* into Content
messageTexts(message) ==
  LET text == IF message.content # <<>> THEN message.content ELSE NoContentText
  IN  [title |-> truncateText(text, titleMaxLength), Content |-> text]

\* the contents applied: of every length, all of one character or with
\* the character at one place another
Contents ==
  {[j \in 1..n |-> IF j = k THEN "b" ELSE "a"] :
     n \in 0..MaxContent, k \in {0, 1, titleMaxLength - 3, titleMaxLength - 2, titleMaxLength}}

ApplyFrame ==
  UNCHANGED <<sinkVars, clientVars, tgConnected, tgDialogs, opts, top, single,
              multi, allf, runs, pending, orphans, timeouts>>

getSenderName_apply ==
  /\ applied.fn = "getSenderName"
  /\ applied.pc = "called"
  /\ applied' = [applied EXCEPT !.pc = "returned", !.ret = getSenderName(applied.arg)]
  /\ ApplyFrame

createMessageProperties_texts ==
  /\ applied.fn = "createMessageProperties"
  /\ applied.pc = "called"
  /\ applied' = [applied EXCEPT !.pc = "returned", !.ret = messageTexts(applied.arg)]
  /\ ApplyFrame

InitApply ==
  /\ applied \in
       {[NoApplication EXCEPT !.fn = "getSenderName", !.pc = "called", !.arg = m] :
          m \in SenderMessages}
       \cup
       {[NoApplication EXCEPT !.fn = "createMessageProperties", !.pc = "called",
                              !.arg = [content |-> c]] : c \in Contents}
  /\ dbSchema = FullSchema("Name")
  /\ pages = {}
  /\ tasks = [t \in TaskIds |-> NoTask]
  /\ calls = [c \in CallIds |-> NoCall]
  /\ ensLog = <<>>
  /\ faults = 0
  /\ edits = 0
  /\ tgConnected = FALSE
  /\ tgDialogs = Dialogs
  /\ opts = DefaultOptions
  /\ top = NoTop
  /\ single = NoSingle
  /\ multi = NoMulti
  /\ allf = NoAll
  /\ runs = <<>>
  /\ pending = NoPending
  /\ orphans = {}
  /\ timeouts = 0
  /\ ClientsAtRest
  /\ apiLog = <<>>

NextApply ==
  \/ getSenderName_apply
  \/ createMessageProperties_texts

SpecApply == InitApply /\ [][NextApply]_vars

(***************************************************************************)
(* Helpers of the properties.                                              *)
(***************************************************************************)
TasksOf(c) == {t \in TaskIds : t[1] = c /\ tasks[t].pc # "none"}

RECURSIVE SumEnsures(_)
SumEnsures(S) ==
  IF S = {} THEN 0
  ELSE LET t == CHOOSE x \in S : TRUE
       IN  tasks[t].ensures + SumEnsures(S \ {t})

\* ensureDatabaseSchema invocations caused by call c: its own and those of
\* its addMessage invocations
EnsuresOfCall(c) == calls[c].ensures + SumEnsures(TasksOf(c))

\* the attempt of the current sub-batch that addMessages awaited last
CurrentAttempt(c) ==
  IF \E k \in BatchRange(calls[c]) : tasks[<<c, k, 2>>].pc # "none" THEN 2 ELSE 1

CreatedInAttempt(c, a) == {k \in BatchRange(calls[c]) : <<c, k, a>> \in pages}

(***************************************************************************)
(* C1: within one addMessages call ensureDatabaseSchema runs at most once  *)
(* in total, whatever number of records and sub-batches fail with the      *)
(* missing-property error.                                                 *)
(***************************************************************************)
C1_ReconcileAtMostOncePerBatchCall ==
  \A c \in CallIds : calls[c].kind = "batch" => EnsuresOfCall(c) <= 1

(***************************************************************************)
(* C2: one addMessage invocation runs ensureDatabaseSchema at most once    *)
(* and issues at most two creates; the second create is issued only after  *)
(* the one reconciliation, and when it fails the error is the result of    *)
(* the call.                                                               *)
(***************************************************************************)
C2_UpsertOneRetriesOnce ==
  \A t \in TaskIds :
    LET tk == tasks[t]
    IN  /\ tk.ensures <= 1
        /\ tk.creates <= 2
        /\ tk.creates = 2 => tk.ensures = 1
        /\ tk.pc = "props2" => tk.ensures = 1 /\ tk.creates = 1
        /\ tk.pc = "create2" => tk.ensures = 1 /\ tk.creates = 2
        /\ (tk.pc = "done" /\ tk.ensures = 1) => tk.creates = 2
        /\ (calls[t[1]].kind = "one" /\ tk.pc = "failed") =>
              calls[t[1]].pc = "failed" /\ calls[t[1]].err = tk.err

C2_Witness ==
  /\ calls[1].kind = "one"
  /\ calls[1].pc = "failed"
  /\ tasks[<<1, 1, 1>>].pc = "failed"
  /\ tasks[<<1, 1, 1>>].creates = 2
  /\ tasks[<<1, 1, 1>>].ensures = 1

(***************************************************************************)
(* C3: when a sub-batch of addMessages fails with an error that is not a   *)
(* missing-property error, or with a missing-property error after the      *)
(* schema was repaired in this call, the call raises that error, starts no *)
(* addMessage for a later sub-batch, and a returned id list has one id per *)
(* record, in record order.                                                *)
(***************************************************************************)
C3_State ==
  \A c \in CallIds :
    LET cl == calls[c]
    IN  cl.kind = "batch" =>
          /\ cl.pc = "failed" =>
               /\ cl.err \in {"missing", "other"}
               /\ \A t \in TaskIds :
                    (t[1] = c /\ t[2] > cl.i + batchSize - 1) => tasks[t].pc = "none"
          /\ cl.pc = "done" =>
               /\ Len(cl.pageIds) = Len(cl.msgs)
               /\ \A k \in 1..Len(cl.msgs) :
                    cl.pageIds[k] \in pages /\ cl.pageIds[k][2] = k

C3_Step ==
  \A c \in CallIds :
    LET cl == calls[c]
    IN  cl.kind = "batch" =>
          /\ \A t \in TaskIds :
               ( /\ t[1] = c
                 /\ t[2] \in BatchRange(cl)
                 /\ \/ cl.pc = "await1" /\ t[3] = 1
                    \/ cl.pc = "await2" /\ t[3] = 2
                 /\ tasks[t].pc # "failed"
                 /\ tasks'[t].pc = "failed"
                 /\ \/ tasks'[t].err = "other"
                    \/ cl.schemaUpdated )
               => calls'[c].pc = "failed" /\ calls'[c].err = tasks'[t].err
          /\ cl.pc = "failed" =>
               /\ calls'[c] = cl
               /\ \A t \in TaskIds :
                    (t[1] = c /\ tasks[t].pc = "none") => tasks'[t].pc = "none"

C9_Step ==
  \A t \in TaskIds :
    LET tk == tasks[t]
        tk2 == tasks'[t]
    IN  /\ (tk.pc = "create" /\ tk2.pc = "failed") =>
              /\ tk2.err = "other"
              /\ tk2.ensures = 0 /\ tk2.updates = 0 /\ tk2.creates = 1
              /\ calls[t[1]].kind = "one" =>
                   calls'[t[1]].pc = "failed" /\ calls'[t[1]].err = "other"
        /\ tk2.ensures > tk.ensures =>
              tk.pc = "create" /\ ~createAccepted(tk.props, dbSchema)
        /\ tk.pc = "failed" => tk2 = tk

C9_OtherErrorPropagatesAtOnce == [][C9_Step]_vars

C9_Witness ==
  /\ calls[1].kind = "one"
  /\ calls[1].pc = "failed"
  /\ calls[1].err = "other"
  /\ tasks[<<1, 1, 1>>].pc = "failed"
  /\ tasks[<<1, 1, 1>>].creates = 1
  /\ tasks[<<1, 1, 1>>].ensures = 0

(***************************************************************************)
(* C10: ensureDatabaseSchema on a collection that has every required       *)
(* property issues no databases.update; after a successful                 *)
(* ensureDatabaseSchema the next one (nobody having edited the collection  *)
(* in between) issues no update either, and no second title property is    *)
(* ever added.                                                             *)
(***************************************************************************)
C10_State ==
  /\ Cardinality(TitleKeys(dbSchema)) = 1
  /\ \A k \in 1..Len(ensLog) - 1 :
       (ensLog[k].ok /\ ensLog[k + 1].readEdits = ensLog[k].readEdits)
         => ensLog[k + 1].updates = 0

C10_Step ==
  (calls[1].kind = "ensure" /\ calls[1].pc = "ens_retrieve"
     /\ missingProperties(dbSchema) = {} /\ calls'[1] # calls[1])
    => /\ calls'[1].pc # "ens_update"
       /\ dbSchema' = dbSchema
       /\ Len(ensLog') = Len(ensLog) + 1
       /\ ensLog'[Len(ensLog')].updates = 0

C10_EnsureSchemaIdempotent == []C10_State /\ [][C10_Step]_vars

C10_Witness ==
  /\ Len(ensLog) >= 2
  /\ ensLog[1].ok /\ ensLog[1].updates = 1
  /\ ensLog[2].ok /\ ensLog[2].updates = 0
  /\ ensLog[2].readEdits = ensLog[1].readEdits

(***************************************************************************)
(* Claims about TelegramToNotionService, checked under SpecSvc.            *)
(***************************************************************************)
RECURSIVE SuccessfulResults(_)
SuccessfulResults(rs) ==
  IF rs = <<>> THEN <<>>
  ELSE (IF Head(rs).outcome = "ok" THEN <<Head(rs).result>> ELSE <<>>)
       \o SuccessfulResults(Tail(rs))

\* C5: extractMultipleChatsToNotion calls extractChatToNotion for the chat
\* ids in list order, each once; a chat's failure does not end the loop and
\* does not make the call raise (it raises only before the first chat, by
\* the deadline of its own connect); what it returns is exactly the results
\* of the chats that succeeded, in list order.
C5_EveryChatAttemptedOnceInOrder ==
  multi.pc # "none" =>
    /\ Len(runs) <= Len(multi.chatIds)
    /\ \A k \in 1..Len(runs) : runs[k].chatId = multi.chatIds[k]
    /\ multi.pc \in {"chat", "delay"} => Len(runs) = multi.i
    /\ multi.pc = "done" =>
         /\ Len(runs) = Len(multi.chatIds)
         /\ \A k \in 1..Len(runs) : runs[k].outcome \in {"ok", "failed"}
         /\ multi.results = SuccessfulResults(runs)
    /\ multi.pc = "failed" => runs = <<>> /\ multi.err.kind = "timeout"

C5_Witness ==
  /\ top.name = "extractChats" /\ top.pc = "done"
  /\ Len(multi.chatIds) = 2
  /\ runs[1].outcome = "failed"
  /\ runs[2].outcome = "ok"
  /\ multi.results = <<runs[2].result>>

\* a call made on behalf of the chat at position k is still in flight: the
\* one the coordinator awaits, one its deadline has abandoned, or an
\* addMessages call or one of its creates that has not settled
InFlight(k) ==
  \/ pending.frame = "single" /\ pending.chat = k
  \/ \E o \in orphans : o.chat = k
  \/ calls[k].kind # "none" /\ calls[k].pc \notin {"done", "failed"}
  \/ \E t \in TasksOf(k) : tasks[t].pc \notin {"none", "done", "failed"}

\* C6: in a run over several chats no call for a later chat is in flight
\* while a call for an earlier chat is in flight.
C6_ChatsStrictlySequential ==
  \A i \in CallIds : \A j \in CallIds :
    i < j /\ j <= Len(runs) => ~(InFlight(i) /\ InFlight(j))

\* C7: every collaborator call the coordinator awaits is guarded by a
\* deadline.
C7_EveryCallHasDeadline ==
  pending.target # "none" => pending.ms > 0

\* the operation names and deadlines of extractChatToNotion
ConfiguredDeadlines ==
  { <<"connect", "Telegram connection", 30000>>,
    <<"getDialogs", "Get dialogs", 20000>>,
    <<"getMessages", "Get messages from Telegram", 30000>>,
    <<"getMessages", "Get messages from specific topic", 30000>>,
    <<"getMessages", "Get messages from topic 7", 30000>>,
    <<"getMessages", "Get messages from topic 9", 30000>>,
    <<"addMessages", "Add messages to Notion", 60000>> }

C8_State ==
  \A k \in 1..Len(runs) :
    runs[k].err.kind = "timeout" =>
      LET last == runs[k].calls[Len(runs[k].calls)]
      IN  /\ runs[k].outcome = "failed"
          /\ <<last.target, last.name, last.ms>> \in ConfiguredDeadlines
          /\ runs[k].err.op = last.name
          /\ runs[k].err.ms = last.ms
          /\ runs[k].err \notin {TransportError, SinkError("other"),
                                 SinkError("missing"), NoErr}

C8_Step ==
  /\ \A k \in 1..Len(runs) :
       runs[k].outcome # "running" => runs'[k] = runs[k]
  /\ ( /\ timeouts' = timeouts + 1
       /\ pending.frame = "single"
       /\ pending.target \in {"connect", "getDialogs", "getMessages", "addMessages"} )
     => /\ runs'[pending.chat].outcome = "failed"
        /\ runs'[pending.chat].err.kind = "timeout"
        /\ runs'[pending.chat].calls = runs[pending.chat].calls

\* C8: in extractChatToNotion a deadline breach on connect, getDialogs,
\* getMessages or addMessages ends the invocation with an error that
\* carries the name and the deadline of the breached call and is none of
\* the errors of the calls themselves; the breached call is the last call
\* the invocation makes, and its outcome does not change afterwards.
C8_DeadlineBreachRaisesNamedError == []C8_State /\ [][C8_Step]_vars

C8_Witness ==
  \E k \in 1..Len(runs) :
    /\ runs[k].outcome = "failed"
    /\ runs[k].err = TimeoutError("Add messages to Notion", 60000)


(***************************************************************************)
(* C11: the collection keeps exactly the title property it started with,   *)
(* whatever its name, through every addMessage, addMessages and the        *)
(* reconciliations they run, and the page of addMessage carries its title  *)
(* under that name and under no other.                                     *)
(***************************************************************************)
TitleNames == UNION {TitleKeys(schema) : schema \in InitSchemas} \cup {"Message"}

C11_State ==
  /\ Cardinality(TitleKeys(dbSchema)) = 1
  /\ \A t \in TaskIds :
       tasks[t].props # {} => tasks[t].props \cap TitleNames = TitleKeys(dbSchema)

C11_Step == TitleKeys(dbSchema') = TitleKeys(dbSchema)

C11_TitlePropertyReused == []C11_State /\ [][C11_Step]_vars

C11_Witness ==
  /\ TitleKeys(dbSchema) = {"Name"}
  /\ \E t \in pages :
       /\ "Name" \in tasks[t].props
       /\ tasks[t].ensures = 1
       /\ tasks[t].updates = 1

(***************************************************************************)
(* C12: once ensureDatabaseSchema has returned successfully the collection *)
(* has every required non-title property, and keeps them for as long as    *)
(* nobody else edits the collection: the operations of NotionClient never  *)
(* remove a property.                                                      *)
(***************************************************************************)
C12_State ==
  \A k \in 1..Len(ensLog) :
    (ensLog[k].ok /\ ensLog[k].readEdits = edits)
      => DOMAIN RequiredNonTitle \subseteq DOMAIN dbSchema

C12_Step == edits' = edits => DOMAIN dbSchema \subseteq DOMAIN dbSchema'

C12_RequiredPropertiesAfterReconcile == []C12_State /\ [][C12_Step]_vars

C12_Witness ==
  /\ Len(ensLog) = MaxEnsureCalls
  /\ ensLog[1].ok
  /\ ensLog[1].updates = 1
  /\ ensLog[1].readEdits = edits
  /\ DOMAIN RequiredNonTitle \subseteq DOMAIN dbSchema


(***************************************************************************)
(* Claims about one extractChatToNotion call, checked under SpecExtract.   *)
(***************************************************************************)
\* the message of the chat's history with the given id
SourceMessage(chatId, id) ==
  LET hist == Source(chatId)
  IN  hist[CHOOSE j \in 1..Len(hist) : hist[j].id = id]

\* the record lists of invocation k: what it converted, what it handed to
\* addMessages, what it returned
RecordLists(k) ==
  {calls[k].msgs}
    \cup (IF single.pos = k THEN {single.notionMessages} ELSE {})
    \cup (IF runs[k].outcome = "ok" THEN {runs[k].result.messages} ELSE {})

Ids(records) == [j \in 1..Len(records) |-> records[j].id]

\* C13: no record extractChatToNotion builds, hands to addMessages or
\* returns comes from a message whose text is absent, empty or blank,
\* whatever includeMedia and includeOutgoing are.
C13_NoRecordWithoutText ==
  \A k \in 1..Len(runs) : \A records \in RecordLists(k) :
    \A j \in 1..Len(records) :
      LET message == SourceMessage(runs[k].chatId, records[j].id)
      IN  message.message \notin {"", " "}

C13_Witness ==
  /\ Len(runs) = 1
  /\ runs[1].chatId = "300"
  /\ opts.includeMedia /\ opts.includeOutgoing
  /\ runs[1].outcome = "ok"
  /\ SourceMessage("300", 2).message = ""
  /\ SourceMessage("300", 2).media # ""
  /\ Ids(calls[1].msgs) = <<3, 1>>
  /\ Cardinality(pages) = 2


\* the getMessages calls of invocation k, in the order they were made
FetchCalls(k) == SelectSeq(runs[k].calls, LAMBDA call : call.target = "getMessages")

\* what the listed topics give, each asked for its newest messageLimit
\* messages
MergedOfTopics(chatId) ==
  UNION { {getMessages(chatId, opts.messageLimit, opts.topicFilter.topicIds[j])[i] :
             i \in 1..Len(getMessages(chatId, opts.messageLimit,
                                      opts.topicFilter.topicIds[j]))} :
          j \in 1..Len(opts.topicFilter.topicIds) }

\* the messageLimit newest of a set of messages
Newest(messages) ==
  {message \in messages :
     Cardinality({other \in messages : other.date > message.date}) < opts.messageLimit}

\* C14: with topicFilter.topicIds (and no topicFilter.topicId) a successful
\* extractChatToNotion has fetched the listed topics one after another in
\* list order, and its records are the messageLimit newest of the merged
\* messages (those of them with a text), newest first; topics 7 (t=10, t=5)
\* and 9 (t=8) with messageLimit 2 give the records of t=10 and t=8 in that
\* order.
C14_TopicsMergedSortedTruncated ==
  \A k \in 1..Len(runs) :
    ( /\ runs[k].outcome = "ok"
      /\ opts.topicFilter.present
      /\ opts.topicFilter.topicId = 0
      /\ Len(opts.topicFilter.topicIds) > 0 )
    => LET records == runs[k].result.messages
           kept == {message \in Newest(MergedOfTopics(runs[k].chatId)) :
                      message.message \notin {"", " "}}
       IN  /\ Len(FetchCalls(k)) = Len(opts.topicFilter.topicIds)
           /\ \A j \in 1..Len(FetchCalls(k)) :
                FetchCalls(k)[j].name =
                  "Get messages from topic " \o ToString(opts.topicFilter.topicIds[j])
           /\ {records[j].id : j \in 1..Len(records)} = {message.id : message \in kept}
           /\ Len(records) = Cardinality(kept)
           /\ \A j \in 1..Len(records) - 1 : records[j].date > records[j + 1].date
           /\ ( /\ runs[k].chatId = "400"
                /\ opts.topicFilter.topicIds = <<7, 9>>
                /\ opts.messageLimit = 2 )
              => [j \in 1..Len(records) |-> records[j].date] = <<10000, 8000>>

C14_Witness ==
  /\ Len(runs) = 1
  /\ runs[1].chatId = "400"
  /\ opts.topicFilter.topicIds = <<7, 9>>
  /\ opts.messageLimit = 2
  /\ runs[1].outcome = "ok"
  /\ Ids(runs[1].result.messages) = <<43, 42>>
  /\ Len(FetchCalls(1)) = 2


C15_State ==
  \A k \in 1..Len(runs) :
    /\ calls[k].kind # "none" => Len(calls[k].msgs) > 0
    /\ (runs[k].outcome = "ok" /\ runs[k].result.messageCount = 0) =>
         /\ runs[k].result.messages = <<>>
         /\ calls[k] = NoCall
         /\ TasksOf(k) = {}
         /\ \A t \in pages : t[1] # k
         /\ \A j \in 1..Len(runs[k].calls) : runs[k].calls[j].target # "addMessages"

C15_Step ==
  ( /\ pending.frame = "single"
    /\ pending.target = "getMessages"
    /\ pending'.target # "getMessages"
    /\ faults' = faults
    /\ timeouts' = timeouts )
  => LET k == pending.chat
     IN  \/ /\ pending'.target = "addMessages"
            /\ calls'[k].kind = "batch"
            /\ Len(calls'[k].msgs) > 0
         \/ /\ runs'[k].outcome = "ok"
            /\ runs'[k].result.messageCount = 0
            /\ runs'[k].result.messages = <<>>
            /\ calls'[k] = NoCall

\* C15: when the last fetch has returned and no message is left after the
\* filters, extractChatToNotion returns at once with messageCount 0 and no
\* messages, without error; it has then made no addMessages call, so no
\* create and no schema request was issued on its behalf.  addMessages is
\* only ever called with at least one record.
C15_NothingLeftReturnsEmpty == []C15_State /\ [][C15_Step]_vars

C15_Witness ==
  /\ Len(runs) = 1
  /\ runs[1].chatId = "100"
  /\ ~opts.includeOutgoing
  /\ runs[1].outcome = "ok"
  /\ runs[1].result.messageCount = 0
  /\ Len(FetchCalls(1)) = 1
  /\ pages = {}


\* a message passes the local filters of the run's options
Passes(message) ==
  /\ opts.includeOutgoing \/ ~message.isOutgoing
  /\ opts.includeMedia \/ message.media = ""
  /\ (opts.dateFilter.present /\ opts.dateFilter.hasFrom)
       => opts.dateFilter.from <= message.date * 1000
  /\ (opts.dateFilter.present /\ opts.dateFilter.hasTo)
       => message.date * 1000 <= opts.dateFilter.to
  /\ message.message \notin {"", " "}

\* what one getMessages call without topic gives for the chat
Fetched(chatId) == getMessages(chatId, opts.messageLimit, 0)

PositionIn(messages, id) == CHOOSE j \in 1..Len(messages) : messages[j].id = id

C17_DateBoundsInclusive ==
  \A k \in 1..Len(runs) :
    (runs[k].outcome = "ok" /\ opts.dateFilter.present /\ ~opts.topicFilter.present) =>
      LET ids == {runs[k].result.messages[j].id :
                    j \in 1..Len(runs[k].result.messages)}
          fetched == Fetched(runs[k].chatId)
          df == opts.dateFilter
      IN  /\ \A j \in 1..Len(fetched) :
               ( /\ fetched[j].message \notin {"", " "}
                 /\ opts.includeOutgoing \/ ~fetched[j].isOutgoing
                 /\ opts.includeMedia \/ fetched[j].media = "" )
               => ( fetched[j].id \in ids <=>
                      /\ df.hasFrom => df.from <= fetched[j].date * 1000
                      /\ df.hasTo => fetched[j].date * 1000 <= df.to )
          /\ (runs[k].chatId = "600" /\ df.hasFrom /\ df.from = 200000) =>
               62 \in ids /\ 61 \notin ids
          /\ (runs[k].chatId = "600" /\ df.hasTo /\ df.to = 300000) =>
               64 \in ids /\ 65 \notin ids

C17_Witness ==
  /\ Len(runs) = 1
  /\ runs[1].chatId = "600"
  /\ opts.dateFilter.hasFrom /\ opts.dateFilter.hasTo
  /\ runs[1].outcome = "ok"
  /\ Ids(runs[1].result.messages) = <<64, 62>>
  /\ SourceMessage("600", 62).date * 1000 = opts.dateFilter.from
  /\ SourceMessage("600", 64).date * 1000 = opts.dateFilter.to
  /\ SourceMessage("600", 61).date * 1000 = opts.dateFilter.from - 1000
  /\ SourceMessage("600", 65).date * 1000 = opts.dateFilter.to + 1000


\* C18: with includeOutgoing = false no record extractChatToNotion builds,
\* hands to addMessages or returns, and no entry created for it, is of an
\* outgoing message; three outgoing and two incoming messages with text
\* give exactly two records.
C18_NoOutgoingRecord ==
  ~opts.includeOutgoing =>
    /\ \A k \in 1..Len(runs) : \A records \in RecordLists(k) :
         \A j \in 1..Len(records) :
           /\ ~records[j].isOutgoing
           /\ ~SourceMessage(runs[k].chatId, records[j].id).isOutgoing
    /\ \A t \in pages : ~calls[t[1]].msgs[t[2]].isOutgoing
    /\ \A k \in 1..Len(runs) :
         (runs[k].outcome = "ok" /\ runs[k].chatId = "500" /\ opts.includeMedia)
           => /\ runs[k].result.messageCount = 2
              /\ Ids(runs[k].result.messages) = <<54, 52>>

C18_Witness ==
  /\ ~opts.includeOutgoing /\ opts.includeMedia
  /\ Len(runs) = 1
  /\ runs[1].chatId = "500"
  /\ runs[1].outcome = "ok"
  /\ Cardinality({j \in 1..Len(Source("500")) : Source("500")[j].isOutgoing}) = 3
  /\ Len(runs[1].result.messages) = 2
  /\ pages = {<<1, 1, 1>>, <<1, 2, 1>>}


C19_State ==
  \A k \in 1..Len(runs) :
    runs[k].outcome = "failed" =>
      runs[k].calls[Len(runs[k].calls)].target # "testConnection"

C19_Step ==
  ( /\ pending.frame = "single"
    /\ pending.target = "testConnection"
    /\ pending' # pending )
  => LET k == pending.chat
         next == single_dialogs(Cur)
     IN  /\ runs'[k].calls = Append(runs[k].calls,
              [target |-> "getDialogs", name |-> "Get dialogs", ms |-> 20000])
         /\ tgConnected => runs'[k].outcome = "running" /\ pending'.target = "getDialogs"
         /\ runs'[k].err.kind \notin {"timeout", "sink"}
         /\ single' = next.single /\ runs' = next.runs /\ pending' = next.pending
         /\ calls' = calls /\ tasks' = tasks /\ pages' = pages

\* C19: however the connectivity probe of extractChatToNotion ends (true,
\* false, or its deadline passing), the invocation goes on with getDialogs
\* in the same state as after a probe that gave true; no invocation ever
\* fails at the probe, so fetch and addMessages follow as they would have.
C19_ProbeFailureIgnored == []C19_State /\ [][C19_Step]_vars

C19_Witness ==
  /\ Len(runs) = 1
  /\ runs[1].outcome = "ok"
  /\ runs[1].result.messageCount > 0
  /\ calls[1].pc = "done"
  /\ \/ faults = 1 /\ timeouts = 0
     \/ faults = 0 /\ [target |-> "testConnection", chat |-> 1] \in orphans


(***************************************************************************)
(* C20: in extractMultipleChatsToNotion every attempt after the first      *)
(* starts out of the 500 ms pause: the pause lies between the end of each  *)
(* chat's attempt and the start of the next one.                           *)
(***************************************************************************)
C20_DelayBetweenConsecutiveChats ==
  [][(multi.pc # "none" /\ Len(runs) >= 1 /\ Len(runs') > Len(runs))
       => multi.pc = "delay"]_vars

\* the pause does lie between a chat that succeeded and the next one
C20_DelayAfterSuccessfulChat ==
  [][(multi.pc # "none" /\ Len(runs) >= 1 /\ Len(runs') > Len(runs)
        /\ runs[Len(runs)].outcome = "ok")
       => multi.pc = "delay"]_vars


(***************************************************************************)
(* C21: over one extractMultipleChatsToNotion run connect() is invoked at  *)
(* most once.  A run of SpecSvc starts disconnected, so the run itself     *)
(* invokes connect() once before the loop; the claim then says that no     *)
(* chat of the run invokes connect() again.                                *)
(***************************************************************************)
ConnectsOfChats ==
  Cardinality({<<k, j>> \in (1..Len(runs)) \X (1..8) :
                 /\ j <= Len(runs[k].calls)
                 /\ runs[k].calls[j].target = "connect"})

C21_ConnectOncePerMultiRun ==
  top.name = "extractChats" => 1 + ConnectsOfChats <= 1

\* when no call of the run failed, so that connect() gave true, no chat of
\* the run connects again
C21_ConnectOnceWhenConnected ==
  (top.name = "extractChats" /\ faults = 0 /\ timeouts = 0)
    => ConnectsOfChats = 0


(***************************************************************************)
(* C22: extractAllChatsToNotion hands to extractMultipleChatsToNotion      *)
(* exactly the ids of the listed chats that pass the type filter, in       *)
(* listing order.  Without a chatFilter every chat passes; with one, a     *)
(* chat passes iff the option for its kind (includeUsers for a user,       *)
(* includeGroups for a group, includeChannels for a channel) is true.      *)
(* When no chat passes nothing is handed over.                             *)
(***************************************************************************)
KindFlag(dialog, chatFilter) ==
  IF dialog.isUser THEN chatFilter.includeUsers
  ELSE IF dialog.isGroup THEN chatFilter.includeGroups
  ELSE chatFilter.includeChannels

PassingIds ==
  LET passing == SelectSeq(tgDialogs, LAMBDA dialog :
                   ~opts.chatFilter.present \/ KindFlag(dialog, opts.chatFilter))
  IN  [j \in 1..Len(passing) |-> passing[j].id]

C23_TopicPropertiesOnEntry ==
  \A t \in pages :
    calls[t[1]].msgs[t[2]].topicId # 0
      => {"Topic ID", "Topic"} \subseteq tasks[t].props

\* what the created entry of a record with a topic id does carry
C23_EntryOfTopicRecord ==
  \A t \in pages :
    calls[t[1]].msgs[t[2]].topicId # 0
      => tasks[t].props = {getTitlePropertyName(dbSchema), "Content", "Sender",
                           "Chat", "Date", "Direction", "Message ID", "Chat ID"}


(***************************************************************************)
(* C24: getDatabaseStats sends one query, for one page, and returns        *)
(* totalMessages equal to the number of entries on that page, with         *)
(* chatCounts and directionCounts each summing to totalMessages; a page    *)
(* with 2 Incoming and 1 Outgoing entries in chats A (2) and B (1) gives   *)
(* totalMessages 3, chatCounts A:2 B:1, directionCounts Incoming:2         *)
(* Outgoing:1.                                                             *)
(***************************************************************************)
RECURSIVE SumOf(_)
SumOf(f) ==
  IF DOMAIN f = {} THEN 0
  ELSE LET x == CHOOSE x \in DOMAIN f : TRUE
       IN  f[x] + SumOf([y \in DOMAIN f \ {x} |-> f[y]])

FirstPage ==
  [j \in 1..Min(Len(remote.entries), page_size) |-> remote.entries[j]]

NumberWith(key, value) ==
  Cardinality({j \in DOMAIN FirstPage : FirstPage[j][key] = value})

ExamplePage ==
  /\ Len(FirstPage) = 3
  /\ NumberWith("Chat", "A") = 2 /\ NumberWith("Chat", "B") = 1
  /\ NumberWith("Direction", "Incoming") = 2
  /\ NumberWith("Direction", "Outgoing") = 1

C24_StatsOfOnePage ==
  /\ Len(apiLog) <= 1
  /\ (clientCall.name = "getDatabaseStats" /\ clientCall.pc = "done") =>
       /\ apiLog = <<[api |-> "databases.query", page_size |-> page_size]>>
       /\ clientCall.result.totalMessages = Len(FirstPage)
       /\ SumOf(clientCall.result.chatCounts) = Len(FirstPage)
       /\ SumOf(clientCall.result.directionCounts) = Len(FirstPage)
       /\ ExamplePage =>
            /\ clientCall.result.totalMessages = 3
            /\ clientCall.result.chatCounts = [n \in {"A", "B"} |-> IF n = "A" THEN 2 ELSE 1]
            /\ clientCall.result.directionCounts =
                 [n \in {"Incoming", "Outgoing"} |-> IF n = "Incoming" THEN 2 ELSE 1]

\* the example page, in a collection that holds one entry more
C24_Witness ==
  /\ clientCall.name = "getDatabaseStats"
  /\ clientCall.pc = "done"
  /\ ExamplePage
  /\ Len(remote.entries) = MaxEntries

\* a page with an entry that lacks its Chat property
C24_WitnessAbsent ==
  /\ clientCall.name = "getDatabaseStats"
  /\ clientCall.pc = "done"
  /\ \E j \in DOMAIN FirstPage : FirstPage[j].Chat = ""


(***************************************************************************)
(* C25: getTopics returns the topics sorted by last message date,          *)
(* descending, every topic without a date after every topic with one, and  *)
(* any tie (equal dates, or both dates absent) broken by descending id.    *)
(***************************************************************************)
TopicsReturned == clientCall.name = "getTopics" /\ clientCall.pc = "done"

C25_TopicsSortedTiesById ==
  TopicsReturned =>
    \A i, j \in 1..Len(clientCall.result) :
      i < j =>
        LET a == clientCall.result[i]
            b == clientCall.result[j]
        IN  /\ a.lastMessageDate = 0 => b.lastMessageDate = 0
            /\ b.lastMessageDate # 0 => a.lastMessageDate >= b.lastMessageDate
            /\ a.lastMessageDate = b.lastMessageDate => a.id > b.id

\* what does hold: the order by date, the topics without a date last and
\* among themselves by descending id; topics of equal date are left in the
\* order they entered topicsMap
C25_TopicsSortedByDate ==
  TopicsReturned =>
    \A i, j \in 1..Len(clientCall.result) :
      i < j =>
        LET a == clientCall.result[i]
            b == clientCall.result[j]
            pos(x) == CHOOSE k \in 1..Len(clientCall.topicsMap) :
                        clientCall.topicsMap[k].id = x.id
        IN  /\ a.lastMessageDate = 0 => b.lastMessageDate = 0
            /\ b.lastMessageDate # 0 => a.lastMessageDate >= b.lastMessageDate
            /\ (a.lastMessageDate = 0 /\ b.lastMessageDate = 0) => a.id > b.id
            /\ (a.lastMessageDate = b.lastMessageDate /\ a.lastMessageDate # 0)
                 => pos(a) < pos(b)


(***************************************************************************)
(* C26: isForumGroup never propagates a failure: on any transport error,   *)
(* the client not being connected included, it returns false.              *)
(***************************************************************************)
C26_ForumProbeNeverThrows ==
  clientCall.name = "isForumGroup" => clientCall.pc # "failed"

\* what does hold: isForumGroup throws only when no client was ever made,
\* before any request; a request that fails gives false
C26_ForumProbeThrowsOnlyWithoutClient ==
  /\ []((clientCall.name = "isForumGroup" /\ clientCall.pc = "failed") =>
          /\ tgClient.config = "none"
          /\ apiLog = <<>>
          /\ clientCall.err = NotConnectedError)
  /\ [][(clientCall.name = "isForumGroup" /\ clientCall.pc = "GetFullChannel"
           /\ clientCall' # clientCall)
        => /\ clientCall'.pc = "done"
           /\ clientCall'.result \in {FALSE, remote.forum}
           /\ ~tgConnected => clientCall'.result = FALSE]_vars


(***************************************************************************)
(* C27: connect tries the methods in the order TCP without WSS, TCP with   *)
(* WSS; the second only after the first failed; it returns true at the     *)
(* first method that succeeds, false only after both failed, and never     *)
(* throws.                                                                 *)
(***************************************************************************)
RequestsOf(config) == SelectSeq(apiLog, LAMBDA r : r.config = config)

\* the method failed: its client was disconnected in the catch of connect
FailedMethod(config) ==
  \E j \in 1..Len(apiLog) :
    apiLog[j] = [api |-> "client.disconnect", config |-> config]

C27_ConnectFallbackOrder ==
  clientCall.name = "connect" =>
    /\ clientCall.pc # "failed"
    /\ apiLog # <<>> /\ apiLog[1].config = "TCP without WSS"
    /\ \A j \in 1..Len(apiLog) : apiLog[j].config \in {"TCP without WSS", "TCP with WSS"}
    /\ \A i, j \in 1..Len(apiLog) :
         (i < j /\ apiLog[i].config = "TCP with WSS") => apiLog[j].config = "TCP with WSS"
    /\ RequestsOf("TCP with WSS") # <<>> =>
         /\ FailedMethod("TCP without WSS")
         /\ apiLog[Len(RequestsOf("TCP without WSS"))].api = "client.disconnect"
    /\ (clientCall.pc = "done" /\ clientCall.result = TRUE) =>
         /\ apiLog[Len(apiLog)].api \in {"client.connect", "client.start"}
         /\ apiLog[Len(apiLog)].config = tgClient.config
         /\ ~FailedMethod(tgClient.config)
         /\ tgClient.config = "TCP without WSS" => RequestsOf("TCP with WSS") = <<>>
    /\ (clientCall.pc = "done" /\ clientCall.result = FALSE) =>
         /\ FailedMethod("TCP without WSS")
         /\ FailedMethod("TCP with WSS")
    /\ (FailedMethod("TCP without WSS") /\ FailedMethod("TCP with WSS")) =>
         /\ clientCall.pc \in {"client.disconnect", "done"}
         /\ clientCall.pc = "done" => clientCall.result = FALSE

\* the first method failed and the second one connected
C27_Witness ==
  /\ clientCall.name = "connect"
  /\ clientCall.pc = "done"
  /\ clientCall.result = TRUE
  /\ FailedMethod("TCP without WSS")
  /\ tgClient.config = "TCP with WSS"

\* both methods failed
C27_WitnessFalse ==
  /\ clientCall.name = "connect"
  /\ clientCall.pc = "done"
  /\ clientCall.result = FALSE


(***************************************************************************)
(* C28: addMessages works on one sub-batch at a time: no create of the     *)
(* next sub-batch, and no create of the retry of a sub-batch, is issued    *)
(* while a create issued earlier by the same call is still in flight, so   *)
(* at most batchSize creates of a call are in flight at any moment.        *)
(***************************************************************************)
CreateInFlight(t) == tasks[t].pc \in {"create", "create2"}

\* the sub-batch of message index k
SubBatchOf(k) == (k - 1) \div batchSize

\* task u belongs to a later round of the call of t: a later sub-batch, or
\* the retry of the same sub-batch
LaterRound(t, u) ==
  /\ u[1] = t[1]
  /\ \/ SubBatchOf(u[2]) > SubBatchOf(t[2])
     \/ (SubBatchOf(u[2]) = SubBatchOf(t[2]) /\ u[3] > t[3])

C28_OneSubBatchAtATime ==
  /\ \A c \in CallIds :
       calls[c].kind = "batch" =>
         Cardinality({t \in TaskIds : t[1] = c /\ CreateInFlight(t)}) <= batchSize
  /\ \A t, u \in TaskIds :
       (calls[t[1]].kind = "batch" /\ LaterRound(t, u))
         => ~(CreateInFlight(t) /\ CreateInFlight(u))


\* what does hold: while nobody else edits the collection, the creates in
\* flight are those of one round of one sub-batch
C28_OneSubBatchWhenNoForeignEdit ==
  edits = 0 =>
    \A t, u \in TaskIds :
      (calls[t[1]].kind = "batch" /\ LaterRound(t, u))
        => ~(CreateInFlight(t) /\ CreateInFlight(u))


(***************************************************************************)
(* C29: when addMessages has returned, every input message has been        *)
(* created exactly once by that call: the entries the call created are as  *)
(* many as its messages, also when a sub-batch was retried after a schema  *)
(* repair.                                                                 *)
(***************************************************************************)
EntriesOf(c, k) == {t \in pages : t[1] = c /\ t[2] = k}

Returned(c) == calls[c].kind = "batch" /\ calls[c].pc = "done"

C29_EachRecordCreatedOnce ==
  \A c \in CallIds :
    Returned(c) =>
      /\ \A k \in 1..Len(calls[c].msgs) : Cardinality(EntriesOf(c, k)) = 1
      /\ Cardinality({t \in pages : t[1] = c}) = Len(calls[c].msgs)

\* what does hold: every message has an entry, and the ids returned are
\* one per message, each the id of an entry of that message
C29_EachRecordCreatedAtLeastOnce ==
  \A c \in CallIds :
    Returned(c) =>
      /\ Len(calls[c].pageIds) = Len(calls[c].msgs)
      /\ \A k \in 1..Len(calls[c].msgs) :
           /\ calls[c].pageIds[k] \in EntriesOf(c, k)
           /\ edits = 0 => Cardinality(EntriesOf(c, k)) = 1


(***************************************************************************)
(* C30: once extractChatToNotion has returned or thrown, a deadline breach *)
(* included, no pages.create and no databases.update caused by that        *)
(* invocation is issued or completes afterwards.                           *)
(***************************************************************************)
\* the invocation of addMessage t has a create or a schema update in
\* flight, or issues one in this step, or one completes in this step
SinkWorkStep(t) ==
  /\ tasks'[t] # tasks[t]
  /\ \/ tasks[t].pc \in {"create", "create2", "ens_update"}
     \/ tasks'[t].pc \in {"create", "create2", "ens_update"}

C30_NoSinkWorkAfterExtractEnds ==
  [][\A k \in 1..Len(runs) :
       runs[k].outcome # "running" =>
         \A t \in TaskIds : t[1] = k => ~SinkWorkStep(t)]_vars

\* what does hold while nobody else edits the collection: after
\* extractChatToNotion has returned, no addMessage of it moves any more
C30_NoSinkWorkAfterReturn ==
  [][\A k \in 1..Len(runs) :
       runs[k].outcome = "ok" =>
         \A t \in TaskIds : t[1] = k => tasks'[t] = tasks[t]]_vars


(***************************************************************************)
(* C31: within one NotionClient two runs of ensureDatabaseSchema never     *)
(* overlap: none starts its read of the collection while another one has   *)
(* read and not yet sent its update, also when several creates of one      *)
(* sub-batch fail at the same time.                                        *)
(***************************************************************************)
\* the runs of ensureDatabaseSchema that have sent their read and not yet
\* their update: those inside addMessage, and those of addMessages or of a
\* direct call
ReadingSchema ==
  {<<"task", t>> : t \in {u \in TaskIds : tasks[u].pc = "ens_retrieve"}}
    \cup {<<"call", c>> : c \in {d \in CallIds : calls[d].pc = "ens_retrieve"}}

C31_ReconciliationsNeverOverlap ==
  [][\A t \in TaskIds :
       (tasks[t].pc # "ens_retrieve" /\ tasks'[t].pc = "ens_retrieve")
         => ReadingSchema = {}]_vars


(***************************************************************************)
(* C32: ensureDatabaseSchema issues at most one databases.update per       *)
(* invocation; the update holds exactly the required properties whose      *)
(* names the collection it read lacks (a title property only when the      *)
(* collection has no property of type title, Direction with exactly the    *)
(* options Incoming and Outgoing); properties the collection has are not   *)
(* in the update and stay as they are.                                     *)
(***************************************************************************)
\* the names the update has to hold for the collection just read
AbsentRequired(schema) ==
  ({"Content", "Sender", "Chat", "Date", "Direction", "Message ID",
    "Media Type", "Chat ID"}
     \cup (IF \E k \in DOMAIN schema : schema[k] = "title" THEN {} ELSE {"Message"}))
    \ DOMAIN schema

C32_State ==
  /\ \A c \in CallIds : calls[c].updates <= 1
  /\ \A k \in 1..Len(ensLog) : ensLog[k].updates <= 1
  /\ \A c \in CallIds :
       (calls[c].kind = "ensure" /\ calls[c].pc = "ens_update") =>
         LET payload == updatePayload(calls[c].missing)
         IN  /\ DOMAIN payload # {}
             /\ calls[c].updates = 1
             /\ "Direction" \in DOMAIN payload =>
                  /\ payload["Direction"].type = "select"
                  /\ payload["Direction"].options = {"Incoming", "Outgoing"}
             /\ "Message" \in DOMAIN payload => payload["Message"].type = "title"

C32_Step ==
  \A c \in CallIds :
    /\ (calls[c].kind = "ensure" /\ calls[c].pc = "ens_retrieve"
          /\ calls'[c] # calls[c] /\ faults' = faults) =>
         IF AbsentRequired(dbSchema) = {}
         THEN calls'[c].pc # "ens_update" /\ dbSchema' = dbSchema
         ELSE /\ calls'[c].pc = "ens_update"
              /\ calls'[c].missing = AbsentRequired(dbSchema)
              /\ dbSchema' = dbSchema
    /\ (calls[c].kind = "ensure" /\ calls[c].pc = "ens_update"
          /\ calls'[c] # calls[c] /\ faults' = faults) =>
         /\ DOMAIN dbSchema' = DOMAIN dbSchema \cup calls[c].missing
         /\ \A n \in DOMAIN dbSchema \ calls[c].missing : dbSchema'[n] = dbSchema[n]
         /\ \A n \in calls[c].missing : dbSchema'[n] = updatePayload(calls[c].missing)[n].type

C32_UpdateHoldsExactlyTheMissing == []C32_State /\ [][C32_Step]_vars

\* a collection that lacks one required property gets an update of that
\* property alone, under its existing title property
C32_Witness ==
  \E c \in CallIds :
    /\ calls[c].kind = "ensure"
    /\ calls[c].pc = "ens_update"
    /\ calls[c].missing = {"Media Type"}
    /\ "Name" \in DOMAIN dbSchema


\* the requests of one kind the call under way has made
Fetches(api) == Len(SelectSeq(apiLog, LAMBDA r : r.api = api))

\* the topic of the result with the given id
ReturnedTopic(id) ==
  CHOOSE t \in {clientCall.result[j] : j \in 1..Len(clientCall.result)} : t.id = id

\* C33: getTopics fetches at most maxBatches batches of the history and none
\* after the first empty one; it makes at most maxCountAttempts count
\* probes, the failed ones counted; a topic past the budget is never
\* touched by a probe and is returned with the count and date it entered
\* the map with.
C33_State ==
  clientCall.name = "getTopics" =>
    /\ Fetches("client.getMessages") <= maxBatches
    /\ Fetches("client.getMessages") <= Len(remote.history) + 1
    /\ Fetches("getMessages") <= maxCountAttempts
    /\ clientCall.pc \in {"count", "done"} =>
          Fetches("getMessages") =
            clientCall.countAttempts + (IF clientCall.pc = "count" THEN 1 ELSE 0)
    /\ clientCall.pc = "done" /\ Len(clientCall.topicsMap) > 0 =>
          /\ Len(clientCall.result) = Len(clientCall.topicsMap)
          /\ \A j \in 1..Len(clientCall.topicsMap) :
                j > maxCountAttempts =>
                  ReturnedTopic(clientCall.topicsMap[j].id) = clientCall.topicsMap[j]

C33_Step ==
  clientCall.name = "getTopics" /\ clientCall.pc = "count" =>
    /\ clientCall'.countAttempts = clientCall.countAttempts + 1
    /\ \A j \in 1..Len(clientCall.topicsMap) :
         j > maxCountAttempts => clientCall'.topicsMap[j] = clientCall.topicsMap[j]

C33_DiscoveryBudgets == []C33_State /\ [][C33_Step]_vars

\* three topics found by two batches, two probes made, the first of them
\* failed or empty, and the third topic returned as the scan entered it
C33_Witness ==
  /\ TopicsReturned
  /\ Fetches("client.getMessages") = maxBatches
  /\ Len(remote.history) >= maxBatches
  /\ Len(clientCall.topicsMap) = maxCountAttempts + 1
  /\ clientCall.countAttempts = maxCountAttempts
  /\ clientCall.topicsMap[2].messageCount = 1
  /\ clientCall.topicsMap[3] = TopicInfo([id |-> 3, date |-> 1])

\* the search ended by an empty batch before the budget of batches
C33_WitnessEmptyBatch ==
  /\ TopicsReturned
  /\ Fetches("GetForumTopics") = 1
  /\ Fetches("client.getMessages") = 1
  /\ Fetches("client.getMessages") < maxBatches


\* C34: a count probe that fails (the warning is written) leaves the map as
\* it was, does not fail getTopics, and is followed by the probe of the
\* next topic when there is one and the budget allows it, otherwise by the
\* normal return of every topic of the map.
C34_Step ==
  clientCall.name = "getTopics" /\ clientCall'.warnings = clientCall.warnings + 1 =>
    /\ clientCall.pc = "count"
    /\ clientCall'.topicsMap = clientCall.topicsMap
    /\ clientCall'.pc \in {"count", "done"}
    /\ clientCall'.pc = "count" <=>
         /\ clientCall.i + 1 <= Len(clientCall.topicsMap)
         /\ clientCall.countAttempts + 1 < maxCountAttempts
    /\ clientCall'.pc = "count" =>
         /\ clientCall'.i = clientCall.i + 1
         /\ apiLog' = Append(apiLog, Request("getMessages"))
    /\ clientCall'.pc = "done" =>
         /\ Len(clientCall'.result) = Len(clientCall.topicsMap)
         /\ \A j \in 1..Len(clientCall.topicsMap) :
              \E k \in 1..Len(clientCall'.result) :
                clientCall'.result[k] = clientCall.topicsMap[j]

C34_FailedProbeNeverFailsDiscovery ==
  [](clientCall.name = "getTopics" /\ clientCall.warnings > 0 => clientCall.pc # "failed")
  /\ [][C34_Step]_vars

\* the probe of the first topic failed, the second topic was probed and
\* counted, and getTopics returned both
C34_Witness ==
  /\ TopicsReturned
  /\ clientCall.warnings = 1
  /\ clientCall.countAttempts = 2
  /\ clientCall.topicsMap[1].messageCount = 0
  /\ clientCall.topicsMap[2].messageCount = 1
  /\ Len(clientCall.result) = Len(clientCall.topicsMap)


\* getMessages with a topicId, on a chat that is no forum, past the guards
TopicOnPlainChat ==
  /\ clientCall.name = "getMessages"
  /\ clientCall.topicId # 0
  /\ ~remote.forum
  /\ clientCall.err # NotConnectedError

\* C35: getMessages with a topicId on a chat without topics returns the
\* empty sequence and does not throw.
C35_TopicOnPlainChatReturnsEmpty ==
  TopicOnPlainChat =>
    /\ clientCall.pc # "failed"
    /\ clientCall.pc = "done" => clientCall.result = <<>>

\* what the code does give: the request goes out as for any chat, and the
\* call ends as the library's answer does
C35_TopicOnPlainChatAsTheLibraryAnswers ==
  TopicOnPlainChat =>
    /\ apiLog = <<Request("client.getMessages replyTo")>>
    /\ clientCall.pc \in {"client.getMessages", "done", "failed"}
    /\ clientCall.pc = "failed" => clientCall.err = TransportError
    /\ clientCall.pc = "done" => clientCall.result = <<>>


\* the sender of the message the function was applied to
SenderOf == applied.arg.sender

\* the names of the sender that are there, joined by one blank
FullName ==
  IF SenderOf.firstName = "" THEN SenderOf.lastName
  ELSE IF SenderOf.lastName = "" THEN SenderOf.firstName
  ELSE SenderOf.firstName \o " " \o SenderOf.lastName

\* C36: the sender name is "You" for an outgoing message; else the first
\* and last name when either is there; else "@" and the username; else the
\* title; else "User " and the id; else "User Unknown".
C36_SenderNameByPriority ==
  applied.fn = "getSenderName" /\ applied.pc = "returned" =>
    LET m == applied.arg
        named == SenderOf.present /\ (SenderOf.firstName # "" \/ SenderOf.lastName # "")
        handled == SenderOf.present /\ SenderOf.username # ""
        titled == SenderOf.present /\ SenderOf.title # ""
    IN  /\ m.isOutgoing => applied.ret = "You"
        /\ ~m.isOutgoing /\ named => applied.ret = FullName
        /\ ~m.isOutgoing /\ ~named /\ handled => applied.ret = "@" \o SenderOf.username
        /\ ~m.isOutgoing /\ ~named /\ ~handled /\ titled => applied.ret = SenderOf.title
        /\ ~m.isOutgoing /\ ~named /\ ~handled /\ ~titled /\ m.fromId # "" =>
             applied.ret = "User " \o m.fromId
        /\ ~m.isOutgoing /\ ~named /\ ~handled /\ ~titled /\ m.fromId = "" =>
             applied.ret = "User Unknown"

\* a sender with a last name, a username and a title: the name wins
C36_Witness ==
  /\ applied.fn = "getSenderName" /\ applied.pc = "returned"
  /\ ~applied.arg.isOutgoing
  /\ SenderOf = [present |-> TRUE, firstName |-> "", lastName |-> "Lee",
                 username |-> "ann", title |-> "Team"]
  /\ applied.ret = "Lee"


\* the texts of a content have been written
TextsWritten == applied.fn = "createMessageProperties" /\ applied.pc = "returned"

\* C39: the title is never longer than 100 characters: a content of at
\* most 100 characters is the title as it is, a longer one gives its first
\* 97 characters followed by "...", 100 characters in all; Content holds
\* the whole content.
C39_TitleAtMost100 ==
  TextsWritten =>
    LET content == applied.arg.content
        title == applied.ret.title
    IN  /\ Len(title) <= 100
        /\ content # <<>> /\ Len(content) <= 100 => title = content
        /\ Len(content) > 100 =>
             /\ Len(title) = 100
             /\ SubSeq(title, 1, 97) = SubSeq(content, 1, 97)
             /\ SubSeq(title, 98, 100) = <<".", ".", ".">>
        /\ content # <<>> => applied.ret.Content = content

\* a content of 101 characters, the 98th another than the rest: the title
\* has 100 characters and has lost it, Content has kept it
C39_Witness ==
  /\ TextsWritten
  /\ Len(applied.arg.content) = 101
  /\ applied.arg.content[98] = "b"
  /\ Len(applied.ret.title) = 100
  /\ applied.ret.title[98] = "."
  /\ applied.ret.Content[98] = "b"


\* C38: whichever branch fetches the messages, extractChatToNotion hands
\* addMessages at most messageLimit records and returns a count of at most
\* messageLimit (every fetch of the model gives at most the limit asked).
C38_WithinMessageLimit ==
  /\ \A c \in CallIds :
       calls[c].kind = "batch" => Len(calls[c].msgs) <= opts.messageLimit
  /\ \A k \in 1..Len(runs) :
       runs[k].outcome = "ok" =>
         /\ runs[k].result.messageCount <= opts.messageLimit
         /\ Len(runs[k].result.messages) <= opts.messageLimit

\* two topics asked for with limit 2, three messages fetched in all, two
\* handed over and counted
C38_Witness ==
  /\ opts.messageLimit = 2
  /\ opts.topicFilter.topicIds = <<7, 9>>
  /\ Len(runs) = 1
  /\ runs[1].chatId = "400"
  /\ runs[1].outcome = "ok"
  /\ runs[1].result.messageCount = 2
  /\ Len(calls[1].msgs) = 2

\* one topic asked for with limit 1
C38_WitnessOneTopic ==
  /\ opts.messageLimit = 1
  /\ opts.topicFilter.topicId = 7
  /\ Len(runs) = 1
  /\ runs[1].chatId = "400"
  /\ runs[1].outcome = "ok"
  /\ runs[1].result.messageCount = 1

\* no topic asked for, limit 2 on a chat of five messages
C38_WitnessNoTopic ==
  /\ opts.messageLimit = 2
  /\ ~opts.topicFilter.present
  /\ Len(runs) = 1
  /\ runs[1].chatId = "500"
  /\ runs[1].outcome = "ok"
  /\ runs[1].result.messageCount = 2


\* extractChatToNotion has run twice on one chat and returned both times
TwoRunsOfOneChat ==
  /\ Len(runs) = 2
  /\ runs[1].chatId = runs[2].chatId
  /\ runs[1].outcome = "ok"
  /\ runs[2].outcome = "ok"

\* C37: a second extractChatToNotion on the same chat, source and options
\* unchanged, hands over the same records and creates an entry for each of
\* them again: 2n entries for n messages that pass; no entry is ever taken
\* away from the collection.
C37_State ==
  TwoRunsOfOneChat =>
    LET n == runs[1].result.messageCount
    IN  /\ runs[2].result = runs[1].result
        /\ \A c \in {1, 2} : \A k \in 1..n : Cardinality(EntriesOf(c, k)) = 1
        /\ Cardinality(pages) = 2 * n

C37_SecondRunDuplicates == []C37_State /\ [][pages \subseteq pages']_vars

\* chat "400" extracted twice with its three messages: six entries, two
\* of each message
C37_Witness ==
  /\ TwoRunsOfOneChat
  /\ runs[1].chatId = "400"
  /\ runs[1].result.messageCount = 3
  /\ Cardinality(pages) = 6
  /\ \A k \in 1..3 : calls[1].msgs[k].id = calls[2].msgs[k].id


TypeOK ==
  /\ faults \in 0..MaxFaults
  /\ edits \in 0..MaxEdits
====
